---------------------------- MODULE Spec2Model ----------------------------
(***************************************************************************)
(* Availability scheduling and indexing engine of the backend canister     *)
(* (src/backend/src/availabilities.rs).                                    *)
(*                                                                         *)
(* Conventions of the translation:                                         *)
(*   - a Rust String is a TLA+ string (Len and \o work on strings); its    *)
(*     len() is the number of bytes of its UTF-8 encoding (len);           *)
(*   - Option<T> is a sequence of length 0 (None) or 1 (Some);             *)
(*   - a map (StableBTreeMap, HashMap) is a function whose DOMAIN is the   *)
(*     set of keys present;                                                *)
(*   - Result<_, String> is the string Ok or the error message;            *)
(*   - ic_cdk::api::time() is constant during one message execution, so    *)
(*     every handler receives one time value t; consecutive messages see   *)
(*     a non-decreasing time (several messages of one round see the same); *)
(*   - the #[query] handlers (get_availability, list_user_availabilities)  *)
(*     write nothing: they are operators over the current state, and what  *)
(*     they return is stated of every reachable state.                     *)
(***************************************************************************)
EXTENDS Integers, Sequences, FiniteSets, TLC

\* ------------------------------------------------------------------------
\* Bounds of the model
\* ------------------------------------------------------------------------
MaxTime == 1
MaxOps == 4
MaxRankOps == 7
MaxKeys == 2
MaxSlots == 3
MaxFieldOps == 3
MaxFrameOps == 3
MaxIdTime == 46
MaxIdOps == 2
MaxAuthOps == 3
MaxTimeToLive == 1

\* ------------------------------------------------------------------------
\* Program constants
\* ------------------------------------------------------------------------
CHARSET ==
  << "a", "b", "c", "d", "e", "f", "g", "h", "i", "j", "k", "l", "m",
     "n", "o", "p", "q", "r", "s", "t", "u", "v", "w", "x", "y", "z",
     "0", "1", "2", "3", "4", "5", "6", "7", "8", "9" >>
IdLen == 6
SuffixMod == 100
MaxTitleLen == 100
MaxDescriptionLen == 500
MaxDay == 6
MinutesPerDay == 1440

Ok == "Ok"
ErrNotFound == "Availability not found"
ErrProvider == "Provider not found"
ErrJwtFormat == "Invalid JWT format: expected 3 parts separated by dots"
ErrJwtSub == "Missing required 'sub' claim in JWT"
ErrSession == "Session not found"
ErrExpiration == "Invalid expiration time"
ErrOrigin == "Invalid origin"
ErrExchange == "Token exchange failed: "
ErrRefresh == "Token refresh failed: "
ErrHttp == "HTTP request failed: "
ErrParse == "Failed to parse token response: "
ErrOwnerUpdate == "Only the owner can update this availability"
ErrOwnerDelete == "Only the owner can delete this availability"
ErrOwnerRegenerate == "Only the owner can regenerate this availability ID"
ErrOwnerBusy == "Only the owner can update busy times"
ErrOwnerFavorite == "Only the owner can set favorite"
ErrEmpty == "No availabilities found"
ErrTitle == "title must be 1-100 characters"
ErrDescription == "description must be 0-500 characters"
ErrNoSlot == "at least 1 slot is required"
ErrDay == "day_of_week must be 0-6 (Sunday-Saturday)"
ErrStart == "start_time must be 0-1439 (minutes in a day)"
ErrEnd == "end_time must be 0-1439 (minutes in a day)"
ErrStartEnd == "start_time must be less than end_time"

\* ------------------------------------------------------------------------
\* Generic helpers
\* ------------------------------------------------------------------------
Range(s) == {s[i] : i \in 1..Len(s)}

Min(S) == CHOOSE x \in S : \A y \in S : x <= y

RECURSIVE Repeat(_, _)
Repeat(c, n) ==
  IF n = 0 THEN ""
  ELSE LET half == Repeat(c, n \div 2)
       IN  half \o half \o (IF n % 2 = 1 THEN c ELSE "")

\* map.insert(k, v)
Insert(map, k, v) == [x \in (DOMAIN map) \cup {k} |-> IF x = k THEN v ELSE map[x]]

\* map.remove(k)
Remove(map, k) == [x \in (DOMAIN map) \ {k} |-> map[x]]

\* The texts of the model are ASCII but for this letter (U+00E9), which
\* UTF-8 encodes in two bytes.
TwoByteChars == {"é"}

\* str::len(): the length of the UTF-8 encoding in bytes, not the number of
\* characters
len(s) ==
  Len(s) + Cardinality({i \in 1..Len(s) : SubSeq(s, i, i) \in TwoByteChars})

\* format!("{:02}", n)
Pad2(n) == IF n < 10 THEN "0" \o ToString(n) ELSE ToString(n)

\* ------------------------------------------------------------------------
\* State
\* ------------------------------------------------------------------------
VARIABLES
  AVAILABILITIES,         \* id -> Availability
  USER_AVAILABILITIES,    \* owner -> sequence of ids
  EMAIL_TO_PRINCIPAL,     \* email -> owner
  USERNAME_TO_PRINCIPAL,  \* username -> owner
  clock,                  \* the last value the time source returned
  nops,                   \* number of update calls executed so far
  last,                   \* the last call: its arguments and what it returned
  runs,                   \* per owner: the records returned by its latest
                          \* run of consecutive successful creates
  SESSIONS,               \* session public key -> SessionData
  USER_TOKENS,            \* principal (text) -> TokenResponse
  pending                 \* the calls suspended at their HTTP outcall

vars == << AVAILABILITIES, USER_AVAILABILITIES, EMAIL_TO_PRINCIPAL,
           USERNAME_TO_PRINCIPAL, clock, nops, last, runs,
           SESSIONS, USER_TOKENS, pending >>

\* the state of lib.rs, which no handler of availabilities.rs reads or writes
authVars == << SESSIONS, USER_TOKENS, pending >>

availabilityVars == << AVAILABILITIES, USER_AVAILABILITIES, EMAIL_TO_PRINCIPAL,
                       USERNAME_TO_PRINCIPAL >>

\* ------------------------------------------------------------------------
\* Inputs
\* ------------------------------------------------------------------------
Principals == {"p1", "p2"}

Mon0900 == [day_of_week |-> 1, start_time |-> 540, end_time |-> 600]
Mon0910 == [day_of_week |-> 1, start_time |-> 550, end_time |-> 650]
Tue0910 == [day_of_week |-> 2, start_time |-> 550, end_time |-> 650]
BadSlot == [day_of_week |-> 2, start_time |-> 700, end_time |-> 700]

Busy1 == [start_time |-> 1000, end_time |-> 2000]

\* ------------------------------------------------------------------------
\* Identifier generator
\* ------------------------------------------------------------------------
\* let random_byte = (time() % CHARSET.len() as u64) as usize
RandomByte(t) == t % Len(CHARSET)

\* the loop with a time source that advances by one between two reads
SampleId_Advancing(t) ==
  CHARSET[RandomByte(t) + 1] \o CHARSET[RandomByte(t + 1) + 1]
    \o CHARSET[RandomByte(t + 2) + 1] \o CHARSET[RandomByte(t + 3) + 1]
    \o CHARSET[RandomByte(t + 4) + 1] \o CHARSET[RandomByte(t + 5) + 1]

\* the loop `for _ in 0..6 { id.push(CHARSET[random_byte]) }`
SampleId(t) == Repeat(CHARSET[RandomByte(t) + 1], IdLen)

\* format!("{}{}", id, (time() % 100))
SuffixedId(id, t) == id \o ToString(t % SuffixMod)

\* generate_availability_id writing the suffix with format!("{:02}", ..)
generate_availability_id_Padded(t) ==
  LET id == SampleId(t)
  IN  IF id \in DOMAIN AVAILABILITIES THEN id \o Pad2(t % SuffixMod) ELSE id

generate_availability_id(t) ==
  LET id == SampleId(t)
  IN  IF id \in DOMAIN AVAILABILITIES THEN SuffixedId(id, t) ELSE id

\* ------------------------------------------------------------------------
\* Time-window validator
\* ------------------------------------------------------------------------
\* validate_time_slot without its last check
validate_time_slot_NoStartEnd(slot) ==
  IF slot.day_of_week > MaxDay THEN ErrDay
  ELSE IF slot.start_time >= MinutesPerDay THEN ErrStart
  ELSE IF slot.end_time >= MinutesPerDay THEN ErrEnd
  ELSE Ok

validate_time_slot(slot) ==
  IF slot.day_of_week > MaxDay THEN ErrDay
  ELSE IF slot.start_time >= MinutesPerDay THEN ErrStart
  ELSE IF slot.end_time >= MinutesPerDay THEN ErrEnd
  ELSE IF slot.start_time >= slot.end_time THEN ErrStartEnd
  ELSE Ok

\* the overlap condition with <= for <: closed intervals
SlotsOverlap_Closed(slot1, slot2) ==
  /\ slot1.day_of_week = slot2.day_of_week
  /\ slot1.start_time <= slot2.end_time
  /\ slot2.start_time <= slot1.end_time

\* the condition of the inner `if` of check_slot_overlaps
SlotsOverlap(slot1, slot2) ==
  /\ slot1.day_of_week = slot2.day_of_week
  /\ slot1.start_time < slot2.end_time
  /\ slot2.start_time < slot1.end_time

HHMM(m) == Pad2(m \div 60) \o ":" \o Pad2(m % 60)

OverlapMessage(slot1, slot2) ==
  "Overlapping slots on day " \o ToString(slot1.day_of_week) \o ": "
    \o HHMM(slot1.start_time) \o "-" \o HHMM(slot1.end_time) \o " and "
    \o HHMM(slot2.start_time) \o "-" \o HHMM(slot2.end_time)

\* the pairs (i, j), i < j, that overlap; the loops return at the first one
\* in the order of i, then j
OverlappingPairs(slots) ==
  {p \in (1..Len(slots)) \X (1..Len(slots)) :
     p[1] < p[2] /\ SlotsOverlap(slots[p[1]], slots[p[2]])}

check_slot_overlaps(slots) ==
  LET bad == OverlappingPairs(slots)
  IN  IF bad = {} THEN Ok
      ELSE LET i == Min({p[1] : p \in bad})
               j == Min({p[2] : p \in {q \in bad : q[1] = i}})
           IN  OverlapMessage(slots[i], slots[j])

\* `for slot in slots { validate_time_slot(slot)?; }`
ValidateEachSlot(slots) ==
  LET bad == {i \in 1..Len(slots) : validate_time_slot(slots[i]) # Ok}
  IN  IF bad = {} THEN Ok ELSE validate_time_slot(slots[Min(bad)])

\* validate_availability running the overlap check before the check of each
\* slot
validate_availability_OverlapFirst(title, description, slots) ==
  IF len(title) = 0 \/ len(title) > MaxTitleLen THEN ErrTitle
  ELSE IF len(description) > MaxDescriptionLen THEN ErrDescription
  ELSE IF Len(slots) = 0 THEN ErrNoSlot
  ELSE IF check_slot_overlaps(slots) # Ok THEN check_slot_overlaps(slots)
  ELSE ValidateEachSlot(slots)

validate_availability(title, description, slots) ==
  IF len(title) = 0 \/ len(title) > MaxTitleLen THEN ErrTitle
  ELSE IF len(description) > MaxDescriptionLen THEN ErrDescription
  ELSE IF Len(slots) = 0 THEN ErrNoSlot
  ELSE IF ValidateEachSlot(slots) # Ok THEN ValidateEachSlot(slots)
  ELSE check_slot_overlaps(slots)

\* ------------------------------------------------------------------------
\* Handlers.  Each one is the whole function: it yields the four maps after
\* the call, the Result (res), the records returned (out) and, for
\* regenerate_availability_id, the id returned (new_id).
\* ------------------------------------------------------------------------
Outcome(av, ua, em, un, res, out, new_id) ==
  [av |-> av, ua |-> ua, em |-> em, un |-> un,
   res |-> res, out |-> out, new_id |-> new_id]

\* an early `return Err(..)` / `?`: nothing was written
Fail(msg) ==
  Outcome(AVAILABILITIES, USER_AVAILABILITIES, EMAIL_TO_PRINCIPAL,
          USERNAME_TO_PRINCIPAL, msg, << >>, "")

\* USER_AVAILABILITIES.get(&caller).map(|v| v.0.clone()).unwrap_or_default()
IdsOf(ua, caller) == IF caller \in DOMAIN ua THEN ua[caller] ELSE << >>

\* create_availability registering an email or a name only when it is no key
\* of the lookup map yet (entry().or_insert in place of insert)
create_availability_FirstWriteWins(caller, req, t) ==
  LET v == validate_availability(req.title, req.description, req.slots)
      display_order == Len(IdsOf(USER_AVAILABILITIES, caller))
      availability ==
        [id |-> generate_availability_id(t),
         owner |-> caller,
         owner_email |-> req.owner_email,
         owner_name |-> req.owner_name,
         title |-> req.title,
         description |-> req.description,
         slots |-> req.slots,
         timezone |-> req.timezone,
         created_at |-> t,
         updated_at |-> t,
         busy_times |-> req.busy_times,
         is_favorite |-> (display_order = 0),
         display_order |-> display_order]
      av == Insert(AVAILABILITIES, availability.id, availability)
      ua == Insert(USER_AVAILABILITIES, caller,
                   Append(IdsOf(USER_AVAILABILITIES, caller), availability.id))
      em == IF availability.owner_email # << >>
               /\ availability.owner_email[1] \notin DOMAIN EMAIL_TO_PRINCIPAL
            THEN Insert(EMAIL_TO_PRINCIPAL, availability.owner_email[1], caller)
            ELSE EMAIL_TO_PRINCIPAL
      un == IF availability.owner_name # << >>
               /\ availability.owner_name[1] \notin DOMAIN USERNAME_TO_PRINCIPAL
            THEN Insert(USERNAME_TO_PRINCIPAL, availability.owner_name[1], caller)
            ELSE USERNAME_TO_PRINCIPAL
  IN  IF v # Ok THEN Fail(v)
      ELSE Outcome(av, ua, em, un, Ok, << availability >>, "")

create_availability(caller, req, t) ==
  LET v == validate_availability(req.title, req.description, req.slots)
      display_order == Len(IdsOf(USER_AVAILABILITIES, caller))
      availability ==
        [id |-> generate_availability_id(t),
         owner |-> caller,
         owner_email |-> req.owner_email,
         owner_name |-> req.owner_name,
         title |-> req.title,
         description |-> req.description,
         slots |-> req.slots,
         timezone |-> req.timezone,
         created_at |-> t,
         updated_at |-> t,
         busy_times |-> req.busy_times,
         is_favorite |-> (display_order = 0),
         display_order |-> display_order]
      av == Insert(AVAILABILITIES, availability.id, availability)
      ua == Insert(USER_AVAILABILITIES, caller,
                   Append(IdsOf(USER_AVAILABILITIES, caller), availability.id))
      em == IF availability.owner_email # << >>
            THEN Insert(EMAIL_TO_PRINCIPAL, availability.owner_email[1], caller)
            ELSE EMAIL_TO_PRINCIPAL
      un == IF availability.owner_name # << >>
            THEN Insert(USERNAME_TO_PRINCIPAL, availability.owner_name[1], caller)
            ELSE USERNAME_TO_PRINCIPAL
  IN  IF v # Ok THEN Fail(v)
      ELSE Outcome(av, ua, em, un, Ok, << availability >>, "")

get_availability(id) ==
  IF id \in DOMAIN AVAILABILITIES
  THEN Outcome(AVAILABILITIES, USER_AVAILABILITIES, EMAIL_TO_PRINCIPAL,
               USERNAME_TO_PRINCIPAL, Ok, << AVAILABILITIES[id] >>, "")
  ELSE Fail(ErrNotFound)

\* the checks of update_availability without the call of check_slot_overlaps
UpdateCheck_NoOverlap(req) ==
  IF req.title # << >> /\ (len(req.title[1]) = 0 \/ len(req.title[1]) > MaxTitleLen)
  THEN ErrTitle
  ELSE IF req.description # << >> /\ len(req.description[1]) > MaxDescriptionLen
  THEN ErrDescription
  ELSE IF req.slots # << >> /\ Len(req.slots[1]) = 0
  THEN ErrNoSlot
  ELSE IF req.slots # << >> /\ ValidateEachSlot(req.slots[1]) # Ok
  THEN ValidateEachSlot(req.slots[1])
  ELSE Ok

\* the checks of the `if let Some(..)` blocks of update_availability, in
\* their order; the first one that fails is returned
UpdateCheck(req) ==
  IF req.title # << >> /\ (len(req.title[1]) = 0 \/ len(req.title[1]) > MaxTitleLen)
  THEN ErrTitle
  ELSE IF req.description # << >> /\ len(req.description[1]) > MaxDescriptionLen
  THEN ErrDescription
  ELSE IF req.slots # << >> /\ Len(req.slots[1]) = 0
  THEN ErrNoSlot
  ELSE IF req.slots # << >> /\ ValidateEachSlot(req.slots[1]) # Ok
  THEN ValidateEachSlot(req.slots[1])
  ELSE IF req.slots # << >>
  THEN check_slot_overlaps(req.slots[1])
  ELSE Ok


\* update_availability writing each field in place as soon as it is checked:
\* the title is stored before a later field is found invalid
update_availability_InPlace(caller, req, t) ==
  IF req.id \notin DOMAIN AVAILABILITIES THEN Fail(ErrNotFound)
  ELSE
    LET old == AVAILABILITIES[req.id]
        availability ==
          [old EXCEPT
             !.title = IF req.title # << >> THEN req.title[1] ELSE @,
             !.description = IF req.description # << >> THEN req.description[1] ELSE @,
             !.slots = IF req.slots # << >> THEN req.slots[1] ELSE @,
             !.timezone = IF req.timezone # << >> THEN req.timezone[1] ELSE @,
             !.updated_at = t]
        titled == [old EXCEPT !.title = IF req.title # << >> THEN req.title[1] ELSE @]
    IN  IF old.owner # caller THEN Fail(ErrOwnerUpdate)
        ELSE IF UpdateCheck(req) = ErrTitle THEN Fail(ErrTitle)
        ELSE IF UpdateCheck(req) # Ok
        THEN Outcome(Insert(AVAILABILITIES, req.id, titled),
                     USER_AVAILABILITIES, EMAIL_TO_PRINCIPAL,
                     USERNAME_TO_PRINCIPAL, UpdateCheck(req), << >>, "")
        ELSE Outcome(Insert(AVAILABILITIES, req.id, availability),
                     USER_AVAILABILITIES, EMAIL_TO_PRINCIPAL,
                     USERNAME_TO_PRINCIPAL, Ok, << availability >>, "")

\* update_availability taking an absent description as the empty one
\* (unwrap_or_default in place of `if let Some`)
update_availability_DefaultDescription(caller, req, t) ==
  IF req.id \notin DOMAIN AVAILABILITIES THEN Fail(ErrNotFound)
  ELSE
    LET old == AVAILABILITIES[req.id]
        availability ==
          [old EXCEPT
             !.title = IF req.title # << >> THEN req.title[1] ELSE @,
             !.description = IF req.description # << >> THEN req.description[1] ELSE "",
             !.slots = IF req.slots # << >> THEN req.slots[1] ELSE @,
             !.timezone = IF req.timezone # << >> THEN req.timezone[1] ELSE @,
             !.updated_at = t]
    IN  IF old.owner # caller THEN Fail(ErrOwnerUpdate)
        ELSE IF UpdateCheck(req) # Ok THEN Fail(UpdateCheck(req))
        ELSE Outcome(Insert(AVAILABILITIES, req.id, availability),
                     USER_AVAILABILITIES, EMAIL_TO_PRINCIPAL,
                     USERNAME_TO_PRINCIPAL, Ok, << availability >>, "")

update_availability(caller, req, t) ==
  IF req.id \notin DOMAIN AVAILABILITIES THEN Fail(ErrNotFound)
  ELSE
    LET old == AVAILABILITIES[req.id]
        availability ==
          [old EXCEPT
             !.title = IF req.title # << >> THEN req.title[1] ELSE @,
             !.description = IF req.description # << >> THEN req.description[1] ELSE @,
             !.slots = IF req.slots # << >> THEN req.slots[1] ELSE @,
             !.timezone = IF req.timezone # << >> THEN req.timezone[1] ELSE @,
             !.updated_at = t]
        checked == UpdateCheck(req)
    IN  IF old.owner # caller THEN Fail(ErrOwnerUpdate)
        ELSE IF checked # Ok THEN Fail(checked)
        ELSE Outcome(Insert(AVAILABILITIES, req.id, availability),
                     USER_AVAILABILITIES, EMAIL_TO_PRINCIPAL,
                     USERNAME_TO_PRINCIPAL, Ok, << availability >>, "")

\* ids.retain(|avail_id| avail_id != &id)
Retain(ids, id) == SelectSeq(ids, LAMBDA x : x # id)


\* delete_availability taking the removal of an id that is no key as done
delete_availability_MissingOk(caller, id) ==
  IF id \notin DOMAIN AVAILABILITIES
  THEN Outcome(AVAILABILITIES, USER_AVAILABILITIES, EMAIL_TO_PRINCIPAL,
               USERNAME_TO_PRINCIPAL, Ok, << >>, "")
  ELSE IF AVAILABILITIES[id].owner # caller THEN Fail(ErrOwnerDelete)
  ELSE Outcome(Remove(AVAILABILITIES, id),
               IF caller \in DOMAIN USER_AVAILABILITIES
               THEN Insert(USER_AVAILABILITIES, caller,
                           SelectSeq(USER_AVAILABILITIES[caller], LAMBDA x : x # id))
               ELSE USER_AVAILABILITIES,
               EMAIL_TO_PRINCIPAL, USERNAME_TO_PRINCIPAL, Ok, << >>, "")

\* delete_availability without the removal from the user index
delete_availability_KeepIndex(caller, id) ==
  IF id \notin DOMAIN AVAILABILITIES THEN Fail(ErrNotFound)
  ELSE IF AVAILABILITIES[id].owner # caller THEN Fail(ErrOwnerDelete)
  ELSE Outcome(Remove(AVAILABILITIES, id), USER_AVAILABILITIES,
               EMAIL_TO_PRINCIPAL, USERNAME_TO_PRINCIPAL, Ok, << >>, "")

\* delete_availability also dropping the lookup entries of the caller
delete_availability_DropLookup(caller, id) ==
  IF id \notin DOMAIN AVAILABILITIES THEN Fail(ErrNotFound)
  ELSE IF AVAILABILITIES[id].owner # caller THEN Fail(ErrOwnerDelete)
  ELSE Outcome(Remove(AVAILABILITIES, id),
               IF caller \in DOMAIN USER_AVAILABILITIES
               THEN Insert(USER_AVAILABILITIES, caller,
                           SelectSeq(USER_AVAILABILITIES[caller], LAMBDA x : x # id))
               ELSE USER_AVAILABILITIES,
               [e \in {x \in DOMAIN EMAIL_TO_PRINCIPAL : EMAIL_TO_PRINCIPAL[x] # caller}
                  |-> EMAIL_TO_PRINCIPAL[e]],
               [n \in {x \in DOMAIN USERNAME_TO_PRINCIPAL : USERNAME_TO_PRINCIPAL[x] # caller}
                  |-> USERNAME_TO_PRINCIPAL[n]],
               Ok, << >>, "")

delete_availability(caller, id) ==
  IF id \notin DOMAIN AVAILABILITIES THEN Fail(ErrNotFound)
  ELSE IF AVAILABILITIES[id].owner # caller THEN Fail(ErrOwnerDelete)
  ELSE Outcome(Remove(AVAILABILITIES, id),
               IF caller \in DOMAIN USER_AVAILABILITIES
               THEN Insert(USER_AVAILABILITIES, caller,
                           Retain(USER_AVAILABILITIES[caller], id))
               ELSE USER_AVAILABILITIES,
               EMAIL_TO_PRINCIPAL, USERNAME_TO_PRINCIPAL, Ok, << >>, "")

\* string_vec.0.iter().filter_map(|id| avails.get(id)).collect()
RECURSIVE FilterMapGet(_, _)
FilterMapGet(ids, avails) ==
  IF ids = << >> THEN << >>
  ELSE IF Head(ids) \in DOMAIN avails
       THEN << avails[Head(ids)] >> \o FilterMapGet(Tail(ids), avails)
       ELSE FilterMapGet(Tail(ids), avails)

\* list_user_availabilities collecting from the end of the index
list_user_availabilities_Reversed(caller) ==
  IF caller \in DOMAIN USER_AVAILABILITIES
  THEN LET ids == USER_AVAILABILITIES[caller]
       IN  FilterMapGet([i \in 1..Len(ids) |-> ids[Len(ids) + 1 - i]], AVAILABILITIES)
  ELSE << >>

list_user_availabilities(caller) ==
  IF caller \in DOMAIN USER_AVAILABILITIES
  THEN FilterMapGet(USER_AVAILABILITIES[caller], AVAILABILITIES)
  ELSE << >>

search_availabilities_by_email(email) ==
  IF email \in DOMAIN EMAIL_TO_PRINCIPAL
  THEN list_user_availabilities(EMAIL_TO_PRINCIPAL[email])
  ELSE << >>

search_availabilities_by_username(username) ==
  IF username \in DOMAIN USERNAME_TO_PRINCIPAL
  THEN list_user_availabilities(USERNAME_TO_PRINCIPAL[username])
  ELSE << >>

search_availabilities_by_principal(principal) == list_user_availabilities(principal)

\* search_by_emails with filter_map in place of map: unmatched keys dropped
search_by_emails_SkipUnmatched(emails) ==
  LET matched == SelectSeq(emails, LAMBDA e : e \in DOMAIN EMAIL_TO_PRINCIPAL)
  IN  [i \in 1..Len(matched) |-> list_user_availabilities(EMAIL_TO_PRINCIPAL[matched[i]])]

\* emails.iter().map(|email| match .. ).collect()
search_by_emails(emails) ==
  [i \in 1..Len(emails) |->
     IF emails[i] \in DOMAIN EMAIL_TO_PRINCIPAL
     THEN list_user_availabilities(EMAIL_TO_PRINCIPAL[emails[i]])
     ELSE << >>]

\* usernames.iter().map(|username| match .. ).collect()
search_by_usernames(usernames) ==
  [i \in 1..Len(usernames) |->
     IF usernames[i] \in DOMAIN USERNAME_TO_PRINCIPAL
     THEN list_user_availabilities(USERNAME_TO_PRINCIPAL[usernames[i]])
     ELSE << >>]

\* ids.iter().position(|id| id == &old_id), then ids[pos] = new_id
ReplaceFirst(ids, old_id, new_id) ==
  LET pos == {i \in 1..Len(ids) : ids[i] = old_id}
  IN  IF pos = {} THEN ids ELSE [ids EXCEPT ![Min(pos)] = new_id]

\* regenerate_availability_id without `new_availability.updated_at = time()`
regenerate_availability_id_KeepStamp(caller, old_id, t) ==
  IF old_id \notin DOMAIN AVAILABILITIES THEN Fail(ErrNotFound)
  ELSE
    LET availability == AVAILABILITIES[old_id]
        new_id == generate_availability_id(t)
        new_availability == [availability EXCEPT !.id = new_id]
    IN  IF availability.owner # caller THEN Fail(ErrOwnerRegenerate)
        ELSE Outcome(Insert(Remove(AVAILABILITIES, old_id), new_id, new_availability),
                     IF caller \in DOMAIN USER_AVAILABILITIES
                     THEN Insert(USER_AVAILABILITIES, caller,
                                 ReplaceFirst(USER_AVAILABILITIES[caller], old_id, new_id))
                     ELSE USER_AVAILABILITIES,
                     EMAIL_TO_PRINCIPAL, USERNAME_TO_PRINCIPAL, Ok, << >>, new_id)

\* regenerate_availability_id leaving the owner index as it was
regenerate_availability_id_StaleIndex(caller, old_id, t) ==
  IF old_id \notin DOMAIN AVAILABILITIES THEN Fail(ErrNotFound)
  ELSE
    LET availability == AVAILABILITIES[old_id]
        new_id == generate_availability_id(t)
        new_availability ==
          [availability EXCEPT !.id = new_id, !.updated_at = t]
    IN  IF availability.owner # caller THEN Fail(ErrOwnerRegenerate)
        ELSE Outcome(Insert(Remove(AVAILABILITIES, old_id), new_id, new_availability),
                     USER_AVAILABILITIES,
                     EMAIL_TO_PRINCIPAL, USERNAME_TO_PRINCIPAL, Ok, << >>, new_id)

regenerate_availability_id(caller, old_id, t) ==
  IF old_id \notin DOMAIN AVAILABILITIES THEN Fail(ErrNotFound)
  ELSE
    LET availability == AVAILABILITIES[old_id]
        new_id == generate_availability_id(t)
        new_availability ==
          [availability EXCEPT !.id = new_id, !.updated_at = t]
    IN  IF availability.owner # caller THEN Fail(ErrOwnerRegenerate)
        ELSE Outcome(Insert(Remove(AVAILABILITIES, old_id), new_id, new_availability),
                     IF caller \in DOMAIN USER_AVAILABILITIES
                     THEN Insert(USER_AVAILABILITIES, caller,
                                 ReplaceFirst(USER_AVAILABILITIES[caller], old_id, new_id))
                     ELSE USER_AVAILABILITIES,
                     EMAIL_TO_PRINCIPAL, USERNAME_TO_PRINCIPAL, Ok, << >>, new_id)


\* update_availability_busy_times without the ownership check
update_availability_busy_times_AnyCaller(caller, id, busy_times, t) ==
  IF id \notin DOMAIN AVAILABILITIES THEN Fail(ErrNotFound)
  ELSE Outcome(Insert(AVAILABILITIES, id,
                      [AVAILABILITIES[id] EXCEPT !.busy_times = << busy_times >>,
                                                 !.updated_at = t]),
               USER_AVAILABILITIES, EMAIL_TO_PRINCIPAL, USERNAME_TO_PRINCIPAL,
               Ok, << >>, "")

\* update_availability_busy_times storing a non-empty argument only
update_availability_busy_times_KeepWhenEmpty(caller, id, busy_times, t) ==
  IF id \notin DOMAIN AVAILABILITIES THEN Fail(ErrNotFound)
  ELSE IF AVAILABILITIES[id].owner # caller THEN Fail(ErrOwnerBusy)
  ELSE Outcome(Insert(AVAILABILITIES, id,
                      [AVAILABILITIES[id] EXCEPT
                         !.busy_times = IF busy_times = << >> THEN @ ELSE << busy_times >>,
                         !.updated_at = t]),
               USER_AVAILABILITIES, EMAIL_TO_PRINCIPAL, USERNAME_TO_PRINCIPAL,
               Ok, << >>, "")

update_availability_busy_times(caller, id, busy_times, t) ==
  IF id \notin DOMAIN AVAILABILITIES THEN Fail(ErrNotFound)
  ELSE IF AVAILABILITIES[id].owner # caller THEN Fail(ErrOwnerBusy)
  ELSE Outcome(Insert(AVAILABILITIES, id,
                      [AVAILABILITIES[id] EXCEPT !.busy_times = << busy_times >>,
                                                 !.updated_at = t]),
               USER_AVAILABILITIES, EMAIL_TO_PRINCIPAL, USERNAME_TO_PRINCIPAL,
               Ok, << >>, "")

\* first pass of set_favorite_availability
RECURSIVE ClearFavorites(_, _, _)
ClearFavorites(map, ids, t) ==
  IF ids = << >> THEN map
  ELSE IF Head(ids) \in DOMAIN map
       THEN ClearFavorites(
              Insert(map, Head(ids),
                     [map[Head(ids)] EXCEPT !.is_favorite = FALSE, !.updated_at = t]),
              Tail(ids), t)
       ELSE ClearFavorites(map, Tail(ids), t)

\* the third pass moving every other record one rank down from where it was
RECURSIVE Reorder_Shift(_, _, _, _, _)
Reorder_Shift(map, ids, id, order, t) ==
  IF ids = << >> THEN map
  ELSE IF Head(ids) # id /\ Head(ids) \in DOMAIN map
       THEN Reorder_Shift(
              Insert(map, Head(ids),
                     [map[Head(ids)] EXCEPT !.display_order = @ + 1, !.updated_at = t]),
              Tail(ids), id, order + 1, t)
       ELSE Reorder_Shift(map, Tail(ids), id, order, t)

\* the second pass without its `display_order = 0`
MarkTarget_KeepOrder(map, id, t) ==
  IF id \in DOMAIN map
  THEN Insert(map, id, [map[id] EXCEPT !.is_favorite = TRUE, !.updated_at = t])
  ELSE map

\* second pass of set_favorite_availability
MarkTarget(map, id, t) ==
  IF id \in DOMAIN map
  THEN Insert(map, id, [map[id] EXCEPT !.is_favorite = TRUE,
                                       !.display_order = 0,
                                       !.updated_at = t])
  ELSE map

\* the third pass with a counter that never advances
RECURSIVE Reorder_NoIncrement(_, _, _, _, _)
Reorder_NoIncrement(map, ids, id, order, t) ==
  IF ids = << >> THEN map
  ELSE IF Head(ids) # id /\ Head(ids) \in DOMAIN map
       THEN Reorder_NoIncrement(
              Insert(map, Head(ids),
                     [map[Head(ids)] EXCEPT !.display_order = order, !.updated_at = t]),
              Tail(ids), id, order, t)
       ELSE Reorder_NoIncrement(map, Tail(ids), id, order, t)

\* the third pass walking the index from its end
RECURSIVE Reorder_FromEnd(_, _, _, _, _)
Reorder_FromEnd(map, ids, id, order, t) ==
  IF ids = << >> THEN map
  ELSE LET x    == ids[Len(ids)]
           rest == SubSeq(ids, 1, Len(ids) - 1)
       IN  IF x # id /\ x \in DOMAIN map
           THEN Reorder_FromEnd(
                  Insert(map, x, [map[x] EXCEPT !.display_order = order,
                                                !.updated_at = t]),
                  rest, id, order + 1, t)
           ELSE Reorder_FromEnd(map, rest, id, order, t)

\* third pass of set_favorite_availability
RECURSIVE Reorder(_, _, _, _, _)
Reorder(map, ids, id, order, t) ==
  IF ids = << >> THEN map
  ELSE IF Head(ids) # id /\ Head(ids) \in DOMAIN map
       THEN Reorder(
              Insert(map, Head(ids),
                     [map[Head(ids)] EXCEPT !.display_order = order, !.updated_at = t]),
              Tail(ids), id, order + 1, t)
       ELSE Reorder(map, Tail(ids), id, order, t)


\* set_favorite_availability looking at the caller's index before the target
set_favorite_availability_EmptyFirst(caller, id, t) ==
  LET user_availability_ids == IdsOf(USER_AVAILABILITIES, caller)
      pass1 == ClearFavorites(AVAILABILITIES, user_availability_ids, t)
      pass2 == MarkTarget(pass1, id, t)
      pass3 == Reorder(pass2, user_availability_ids, id, 1, t)
  IN  IF user_availability_ids = << >> THEN Fail(ErrEmpty)
      ELSE IF id \notin DOMAIN AVAILABILITIES THEN Fail(ErrNotFound)
      ELSE IF AVAILABILITIES[id].owner # caller THEN Fail(ErrOwnerFavorite)
      ELSE Outcome(pass3, USER_AVAILABILITIES, EMAIL_TO_PRINCIPAL,
                   USERNAME_TO_PRINCIPAL, Ok, << >>, "")

\* set_favorite_availability without its first pass
set_favorite_availability_NoClear(caller, id, t) ==
  IF id \notin DOMAIN AVAILABILITIES THEN Fail(ErrNotFound)
  ELSE IF AVAILABILITIES[id].owner # caller THEN Fail(ErrOwnerFavorite)
  ELSE
    LET user_availability_ids == IdsOf(USER_AVAILABILITIES, caller)
        pass2 == MarkTarget(AVAILABILITIES, id, t)
        pass3 == Reorder(pass2, user_availability_ids, id, 1, t)
    IN  IF user_availability_ids = << >> THEN Fail(ErrEmpty)
        ELSE Outcome(pass3, USER_AVAILABILITIES, EMAIL_TO_PRINCIPAL,
                     USERNAME_TO_PRINCIPAL, Ok, << >>, "")

\* set_favorite_availability moving the target to the front of the index
set_favorite_availability_ToFront(caller, id, t) ==
  IF id \notin DOMAIN AVAILABILITIES THEN Fail(ErrNotFound)
  ELSE IF AVAILABILITIES[id].owner # caller THEN Fail(ErrOwnerFavorite)
  ELSE
    LET user_availability_ids == IdsOf(USER_AVAILABILITIES, caller)
        pass1 == ClearFavorites(AVAILABILITIES, user_availability_ids, t)
        pass2 == MarkTarget(pass1, id, t)
        pass3 == Reorder(pass2, user_availability_ids, id, 1, t)
    IN  IF user_availability_ids = << >> THEN Fail(ErrEmpty)
        ELSE Outcome(pass3,
                     Insert(USER_AVAILABILITIES, caller,
                            << id >> \o Retain(user_availability_ids, id)),
                     EMAIL_TO_PRINCIPAL, USERNAME_TO_PRINCIPAL, Ok, << >>, "")

set_favorite_availability(caller, id, t) ==
  IF id \notin DOMAIN AVAILABILITIES THEN Fail(ErrNotFound)
  ELSE IF AVAILABILITIES[id].owner # caller THEN Fail(ErrOwnerFavorite)
  ELSE
    LET user_availability_ids == IdsOf(USER_AVAILABILITIES, caller)
        pass1 == ClearFavorites(AVAILABILITIES, user_availability_ids, t)
        pass2 == MarkTarget(pass1, id, t)
        pass3 == Reorder(pass2, user_availability_ids, id, 1, t)
    IN  IF user_availability_ids = << >> THEN Fail(ErrEmpty)
        ELSE Outcome(pass3, USER_AVAILABILITIES, EMAIL_TO_PRINCIPAL,
                     USERNAME_TO_PRINCIPAL, Ok, << >>, "")

\* ------------------------------------------------------------------------
\* Requests the callers send
\* ------------------------------------------------------------------------
MissingId == "zzzzzz"

CreateRequest(title, description, slots, timezone, owner_email, owner_name, busy_times) ==
  [title |-> title, description |-> description, slots |-> slots,
   timezone |-> timezone, owner_email |-> owner_email,
   owner_name |-> owner_name, busy_times |-> busy_times]

CreateRequests ==
  { CreateRequest("Planning", "all hands",
                  << Mon0900, Tue0910 >>, "UTC",
                  << "a@x.com" >>, << "alice" >>, << << Busy1 >> >>),
    CreateRequest("Standup", "", << Mon0900, Mon0910 >>, "UTC",
                  << "b@x.com" >>, << "bob" >>, << >>) }

UpdateRequest(id, title, description, slots, timezone) ==
  [id |-> id, title |-> title, description |-> description,
   slots |-> slots, timezone |-> timezone]

UpdateRequests(id) ==
  { UpdateRequest(id, << "Retro" >>, << >>, << << Tue0910 >> >>, << "Asia/Tokyo" >>),
    UpdateRequest(id, << "Retro" >>, << >>, << << BadSlot >> >>, << >>) }

BusyInputs == { << Busy1, Busy1 >> }

\* the keys of a batch search: one the create requests register, one nobody
\* does
SearchEmails == {"a@x.com", "nobody@x.com"}

SearchUsernames == {"alice", "nobody"}

\* the sequences of at most MaxKeys keys, repeats included
KeySeqs(keys) == UNION {[1..n -> keys] : n \in 0..MaxKeys}

\* the ids a caller may name: every key of the store and one that is not
KnownIds == (DOMAIN AVAILABILITIES) \cup {MissingId}

Times == clock..MaxTime

\* ------------------------------------------------------------------------
\* Bookkeeping of the runs of creates (history, not program state)
\* ------------------------------------------------------------------------
NoRun == [fresh |-> FALSE, recs |-> << >>]

Owned(av, o) == {id \in DOMAIN av : av[id].owner = o}

\* a successful create by caller extends its run; a run that starts when the
\* caller owns no availability is fresh
RunAfterCreate(caller, rec) ==
  [runs EXCEPT ![caller] =
     IF @.recs = << >>
     THEN [fresh |-> Owned(AVAILABILITIES, caller) = {}, recs |-> << rec >>]
     ELSE [@ EXCEPT !.recs = Append(@, rec)]]

\* any other successful mutation by caller ends its run
RunAfterMutation(caller) == [runs EXCEPT ![caller] = NoRun]

\* ------------------------------------------------------------------------
\* Initial state and actions
\* ------------------------------------------------------------------------
Call(op, caller, id, o) ==
  [op |-> op, caller |-> caller, id |-> id,
   res |-> o.res, out |-> o.out, new_id |-> o.new_id]

Init ==
  /\ AVAILABILITIES = << >>
  /\ USER_AVAILABILITIES = << >>
  /\ EMAIL_TO_PRINCIPAL = << >>
  /\ USERNAME_TO_PRINCIPAL = << >>
  /\ clock = 0
  /\ nops = 0
  /\ last = [op |-> "init", caller |-> "", id |-> "", res |-> Ok,
             out |-> << >>, new_id |-> ""]
  /\ runs = [p \in Principals |-> NoRun]
  /\ SESSIONS = << >>
  /\ USER_TOKENS = << >>
  /\ pending = {}

\* the state change of an update call with outcome o at time t
Commit(o, t) ==
  /\ AVAILABILITIES' = o.av
  /\ USER_AVAILABILITIES' = o.ua
  /\ EMAIL_TO_PRINCIPAL' = o.em
  /\ USERNAME_TO_PRINCIPAL' = o.un
  /\ clock' = t
  /\ nops' = nops + 1
  /\ UNCHANGED authVars

Create ==
  /\ nops < MaxOps
  /\ \E caller \in Principals, req \in CreateRequests, t \in Times :
       LET o == create_availability(caller, req, t)
       IN  /\ Commit(o, t)
           /\ last' = Call("create", caller, "", o)
           /\ runs' = IF o.res = Ok THEN RunAfterCreate(caller, o.out[1]) ELSE runs

Update ==
  /\ nops < MaxOps
  /\ \E caller \in Principals, id \in KnownIds, t \in Times :
       \E req \in UpdateRequests(id) :
         LET o == update_availability(caller, req, t)
         IN  /\ Commit(o, t)
             /\ last' = Call("update", caller, id, o)
             /\ runs' = IF o.res = Ok THEN RunAfterMutation(caller) ELSE runs

Delete ==
  /\ nops < MaxOps
  /\ \E caller \in Principals, id \in KnownIds, t \in Times :
       LET o == delete_availability(caller, id)
       IN  /\ Commit(o, t)
           /\ last' = Call("delete", caller, id, o)
           /\ runs' = IF o.res = Ok THEN RunAfterMutation(caller) ELSE runs

Regenerate ==
  /\ nops < MaxOps
  /\ \E caller \in Principals, id \in KnownIds, t \in Times :
       LET o == regenerate_availability_id(caller, id, t)
       IN  /\ Commit(o, t)
           /\ last' = Call("regenerate", caller, id, o)
           /\ runs' = IF o.res = Ok THEN RunAfterMutation(caller) ELSE runs

UpdateBusyTimes ==
  /\ nops < MaxOps
  /\ \E caller \in Principals, id \in KnownIds, busy \in BusyInputs, t \in Times :
       LET o == update_availability_busy_times(caller, id, busy, t)
       IN  /\ Commit(o, t)
           /\ last' = Call("busy", caller, id, o)
           /\ runs' = IF o.res = Ok THEN RunAfterMutation(caller) ELSE runs

SetFavorite ==
  /\ nops < MaxOps
  /\ \E caller \in Principals, id \in KnownIds, t \in Times :
       LET o == set_favorite_availability(caller, id, t)
       IN  /\ Commit(o, t)
           /\ last' = Call("favorite", caller, id, o)
           /\ runs' = IF o.res = Ok THEN RunAfterMutation(caller) ELSE runs

Next ==
  \/ Delete
  \/ SetFavorite
  \/ Regenerate
  \/ Update
  \/ UpdateBusyTimes
  \/ Create

Spec == Init /\ [][Next]_vars

\* ------------------------------------------------------------------------
\* Ranking specification: the owners only create, delete and set favorites,
\* each on an id of their own index (what list_user_availabilities shows
\* them), so that longer call sequences stay small.
\* ------------------------------------------------------------------------
RankRequest == CreateRequest("Standup", "", << Mon0900 >>, "UTC", << >>, << >>, << >>)

RankCreate ==
  /\ nops < MaxRankOps
  /\ \E caller \in Principals, t \in Times :
       LET o == create_availability(caller, RankRequest, t)
       IN  /\ Commit(o, t)
           /\ last' = Call("create", caller, "", o)
           /\ UNCHANGED runs

RankDelete ==
  /\ nops < MaxRankOps
  /\ \E caller \in Principals :
       \E id \in Range(IdsOf(USER_AVAILABILITIES, caller)) :
         LET o == delete_availability(caller, id)
         IN  /\ Commit(o, clock)
             /\ last' = Call("delete", caller, id, o)
             /\ UNCHANGED runs

RankSetFavorite ==
  /\ nops < MaxRankOps
  /\ \E caller \in Principals :
       \E id \in Range(IdsOf(USER_AVAILABILITIES, caller)) :
         LET o == set_favorite_availability(caller, id, clock)
         IN  /\ Commit(o, clock)
             /\ last' = Call("favorite", caller, id, o)
             /\ UNCHANGED runs

NextRank ==
  \/ RankSetFavorite
  \/ RankDelete
  \/ RankCreate

SpecRank == Init /\ [][NextRank]_vars

\* ------------------------------------------------------------------------
\* Overlap specification: check_slot_overlaps as a function of its argument.
\* A behaviour starts with an argument and applies the function to it once.
\* ------------------------------------------------------------------------
\* structurally valid slots: on either of two days, two windows that touch
\* at 600 and one that overlaps both
OverlapSlots ==
  {[day_of_week |-> d, start_time |-> w[1], end_time |-> w[2]] :
     d \in {1, 2}, w \in {<< 540, 600 >>, << 600, 660 >>, << 550, 650 >>}}

SlotSeqs == UNION {[1..n -> OverlapSlots] : n \in 0..MaxSlots}

InitOverlap ==
  /\ AVAILABILITIES = << >>
  /\ USER_AVAILABILITIES = << >>
  /\ EMAIL_TO_PRINCIPAL = << >>
  /\ USERNAME_TO_PRINCIPAL = << >>
  /\ clock = 0
  /\ nops = 0
  /\ runs = [p \in Principals |-> NoRun]
  /\ SESSIONS = << >>
  /\ USER_TOKENS = << >>
  /\ pending = {}
  /\ \E slots \in SlotSeqs :
       last = [op |-> "argument", slots |-> slots, res |-> Ok]

CheckSlotOverlaps ==
  /\ last.op = "argument"
  /\ last' = [op |-> "check_slot_overlaps", slots |-> last.slots,
              res |-> check_slot_overlaps(last.slots)]
  /\ UNCHANGED << AVAILABILITIES, USER_AVAILABILITIES, EMAIL_TO_PRINCIPAL,
                  USERNAME_TO_PRINCIPAL, clock, nops, runs >>
  /\ UNCHANGED authVars

NextOverlap == CheckSlotOverlaps

SpecOverlap == InitOverlap /\ [][NextOverlap]_vars

\* ------------------------------------------------------------------------
\* Field specification: one owner creates and updates, with slot sets of
\* every kind the validator tells apart and with update requests of every
\* combination of present and absent fields.  The request of a call and the
\* record an update found are kept in `last`.
\* ------------------------------------------------------------------------
FieldOwner == "p1"

DaySeven == [day_of_week |-> 7, start_time |-> 540, end_time |-> 600]
Start1440 == [day_of_week |-> 1, start_time |-> 1440, end_time |-> 1441]
End1440 == [day_of_week |-> 1, start_time |-> 600, end_time |-> 1440]

SlotInputs ==
  { << Mon0900 >>,
    << Tue0910 >>,
    << Mon0900, Mon0910 >>,
    << Mon0900, BadSlot >>,
    << DaySeven, Mon0900 >>,
    << Mon0900, Start1440 >>,
    << End1440, Tue0910 >>,
    << >> }

FieldCreateRequest(slots) ==
  CreateRequest("Standup", "weekly", slots, "UTC", << "a@x.com" >>, << "alice" >>,
                << << Busy1 >> >>)

\* every combination of present and absent fields, each present field valid,
\* and the requests that replace the slots alone
FieldUpdateRequests(id) ==
  {UpdateRequest(id, title, description, slots, timezone) :
     title \in {<< >>, << "Retro" >>},
     description \in {<< >>, << "" >>},
     slots \in {<< >>, << << Tue0910 >> >>},
     timezone \in {<< >>, << "Asia/Tokyo" >>}}
  \cup {UpdateRequest(id, << >>, << >>, << slots >>, << >>) : slots \in SlotInputs}

FieldCall(op, id, o, req, before) ==
  [op |-> op, caller |-> FieldOwner, id |-> id, res |-> o.res, out |-> o.out,
   new_id |-> o.new_id, req |-> req, before |-> before]

FieldCreate ==
  /\ nops < MaxFieldOps
  /\ \E slots \in SlotInputs, t \in Times :
       LET req == FieldCreateRequest(slots)
           o   == create_availability(FieldOwner, req, t)
       IN  /\ Commit(o, t)
           /\ last' = FieldCall("create", "", o, req, << >>)
           /\ UNCHANGED runs

FieldUpdate ==
  /\ nops < MaxFieldOps
  /\ \E id \in DOMAIN AVAILABILITIES, t \in Times :
       \E req \in FieldUpdateRequests(id) :
         LET o == update_availability(FieldOwner, req, t)
         IN  /\ Commit(o, t)
             /\ last' = FieldCall("update", id, o, req, << AVAILABILITIES[id] >>)
             /\ UNCHANGED runs

NextFields ==
  \/ FieldUpdate
  \/ FieldCreate

SpecFields == Init /\ [][NextFields]_vars

\* ------------------------------------------------------------------------
\* Validation specification: a behaviour starts with a create request on
\* the empty store, sends it, and then updates the title and the description
\* of the record made.  The titles and descriptions are the empty text and
\* texts at and one beyond the limits, in one-byte and in two-byte letters;
\* the slot sequences are all those of at most MaxSlots slots, each valid or
\* invalid in one or in several ways.
\* ------------------------------------------------------------------------
TitleInputs ==
  { "", "a", Repeat("a", MaxTitleLen), Repeat("a", MaxTitleLen + 1),
    Repeat("é", MaxTitleLen \div 2), Repeat("é", MaxTitleLen) }

DescriptionInputs ==
  { "", Repeat("d", MaxDescriptionLen), Repeat("d", MaxDescriptionLen + 1),
    Repeat("é", MaxDescriptionLen \div 2), Repeat("é", MaxDescriptionLen) }

\* day, start and end all out of range
WorstSlot == [day_of_week |-> 7, start_time |-> 1500, end_time |-> 1440]
\* start out of range and not before the end
LateSlot == [day_of_week |-> 1, start_time |-> 1500, end_time |-> 600]

ValidateSlots == {Mon0900, Mon0910, BadSlot, End1440, LateSlot, WorstSlot}

ValidateSlotSeqs == UNION {[1..n -> ValidateSlots] : n \in 0..MaxSlots}

ValidateCreateRequests ==
  {CreateRequest(title, description, slots, "UTC", << >>, << >>, << >>) :
     title \in TitleInputs, description \in DescriptionInputs,
     slots \in ValidateSlotSeqs}

ValidateUpdateRequests(id) ==
  {UpdateRequest(id, title, description, << >>, << >>) :
     title \in {<< >>} \cup {<< x >> : x \in TitleInputs},
     description \in {<< >>} \cup {<< x >> : x \in DescriptionInputs}}

ValidateCall(op, id, o, req) ==
  [op |-> op, caller |-> FieldOwner, id |-> id, res |-> o.res, out |-> o.out,
   new_id |-> o.new_id, req |-> req]

InitValidate ==
  /\ AVAILABILITIES = << >>
  /\ USER_AVAILABILITIES = << >>
  /\ EMAIL_TO_PRINCIPAL = << >>
  /\ USERNAME_TO_PRINCIPAL = << >>
  /\ clock = 0
  /\ nops = 0
  /\ runs = [p \in Principals |-> NoRun]
  /\ SESSIONS = << >>
  /\ USER_TOKENS = << >>
  /\ pending = {}
  /\ \E req \in ValidateCreateRequests :
       last = [op |-> "argument", caller |-> FieldOwner, id |-> "", res |-> Ok,
               out |-> << >>, new_id |-> "", req |-> req]

ValidateCreate ==
  /\ last.op = "argument"
  /\ LET o == create_availability(FieldOwner, last.req, clock)
     IN  /\ Commit(o, clock)
         /\ last' = ValidateCall("create", "", o, last.req)
         /\ UNCHANGED runs

ValidateUpdate ==
  /\ last.op = "create"
  /\ \E id \in DOMAIN AVAILABILITIES :
       \E req \in ValidateUpdateRequests(id) :
         LET o == update_availability(FieldOwner, req, clock)
         IN  /\ Commit(o, clock)
             /\ last' = ValidateCall("update", id, o, req)
             /\ UNCHANGED runs

NextValidate ==
  \/ ValidateUpdate
  \/ ValidateCreate

SpecValidate == InitValidate /\ [][NextValidate]_vars

\* ------------------------------------------------------------------------
\* Generator specification: one owner creates and regenerates at every time
\* up to MaxIdTime, so that the generator samples identifiers that are keys
\* (a call at a time with the remainder mod 36 of an earlier one) at times
\* whose remainder mod 100 has one digit and at times where it has two.
\* ------------------------------------------------------------------------
IdTimes == clock..MaxIdTime

IdRequest == CreateRequest("Standup", "", << Mon0900 >>, "UTC", << >>, << >>, << >>)

IdCreate ==
  /\ nops < MaxIdOps
  /\ \E t \in IdTimes :
       LET o == create_availability(FieldOwner, IdRequest, t)
       IN  /\ Commit(o, t)
           /\ last' = Call("create", FieldOwner, "", o)
           /\ UNCHANGED runs

IdRegenerate ==
  /\ nops < MaxIdOps
  /\ \E id \in DOMAIN AVAILABILITIES, t \in IdTimes :
       LET o == regenerate_availability_id(FieldOwner, id, t)
       IN  /\ Commit(o, t)
           /\ last' = Call("regenerate", FieldOwner, id, o)
           /\ UNCHANGED runs

NextId ==
  \/ IdRegenerate
  \/ IdCreate

SpecId == Init /\ [][NextId]_vars

\* ------------------------------------------------------------------------
\* Sessions, delegations and OAuth tokens (lib.rs).  A handler yields the
\* session map and the token map after the call, its Result (res) and the
\* value returned (out).
\* ------------------------------------------------------------------------
AuthOutcome(sessions, tokens, res, out) ==
  [sessions |-> sessions, tokens |-> tokens, res |-> res, out |-> out]

AuthFail(msg) == AuthOutcome(SESSIONS, USER_TOKENS, msg, << >>)

\* PROVIDERS after init()
PROVIDERS == {"google"}

\* An id_token is given by what verify_jwt_token reads of it: the number of
\* its dot-separated parts and the sub, email and name claims of its
\* payload (each an Option).  The signature is not looked at.
IdToken(parts, sub, email, name) ==
  [parts |-> parts, sub |-> sub, email |-> email, name |-> name]

verify_jwt_token(token) ==
  IF token.parts # 3 THEN [res |-> ErrJwtFormat]
  ELSE IF token.sub = << >> THEN [res |-> ErrJwtSub]
  ELSE [res |-> Ok, user_id |-> token.sub[1],
        email |-> token.email, name |-> token.name]

\* SHA-256 of user_id ":" origin; the text stands for the digest, which is
\* taken to differ on different inputs
Sha256(text) == "sha256(" \o text \o ")"

derive_user_pubkey(user_id, origin) == Sha256(user_id \o ":" \o origin)

\* Principal::from_slice(&hash[0..29]).to_text()
derive_user_principal(user_id, origin) ==
  Sha256(user_id \o ":" \o origin) \o "[0..29]"

\* the hash of pubkey and expiration that stands in for a signature
sign_delegation(delegation) ==
  Sha256(delegation.pubkey \o ToString(delegation.expiration))

prepare_delegation(req, now) ==
  IF req.provider \notin PROVIDERS THEN AuthFail(ErrProvider)
  ELSE
    LET verified == verify_jwt_token(req.id_token)
        expire_at == now + req.max_time_to_live
    IN  IF verified.res # Ok THEN AuthFail(verified.res)
        ELSE AuthOutcome(
               Insert(SESSIONS, req.session_public_key,
                      [user_id |-> verified.user_id,
                       email |-> verified.email,
                       name |-> verified.name,
                       origin |-> req.origin,
                       expires_at |-> expire_at,
                       targets |-> req.targets]),
               USER_TOKENS, Ok, << [expire_at |-> expire_at] >>)

\* #[query]: reads the session map only
get_delegation(req) ==
  IF req.session_public_key \notin DOMAIN SESSIONS THEN AuthFail(ErrSession)
  ELSE
    LET session == SESSIONS[req.session_public_key]
        delegation == [pubkey |-> req.session_public_key,
                       expiration |-> req.expire_at,
                       targets |-> req.targets]
    IN  IF session.expires_at # req.expire_at THEN AuthFail(ErrExpiration)
        ELSE IF session.origin # req.origin THEN AuthFail(ErrOrigin)
        ELSE AuthOutcome(
               SESSIONS, USER_TOKENS, Ok,
               << [signed_delegation |->
                     [delegation |-> delegation,
                      signature |-> sign_delegation(delegation)],
                   user_canister_pubkey |->
                     derive_user_pubkey(session.user_id, session.origin)] >>)

\* sessions.retain(|_, session_data| session_data.expires_at > now)
cleanup_expired_sessions(now) ==
  LET valid == {k \in DOMAIN SESSIONS : SESSIONS[k].expires_at > now}
  IN  AuthOutcome([k \in valid |-> SESSIONS[k]], USER_TOKENS, Ok,
                  << Cardinality(DOMAIN SESSIONS \ valid) >>)

get_session_count == Cardinality(DOMAIN SESSIONS)

logout(session_public_key) ==
  IF session_public_key \in DOMAIN SESSIONS
  THEN AuthOutcome(Remove(SESSIONS, session_public_key), USER_TOKENS, Ok, << >>)
  ELSE AuthFail(ErrSession)

\* #[query] get_user_info: the loop over sessions.values() breaks after the
\* first value, and the order of a HashMap's values is unspecified, so the
\* call can return the data of any stored session; the set of the values it
\* can return
get_user_info(caller) ==
  IF DOMAIN SESSIONS = {}
  THEN {[principal |-> caller, email |-> << >>, name |-> << >>, user_id |-> << >>]}
  ELSE {[principal |-> caller,
         email |-> SESSIONS[k].email,
         name |-> SESSIONS[k].name,
         user_id |-> << SESSIONS[k].user_id >>] : k \in DOMAIN SESSIONS}

\* what the token endpoint answers to a grant (an authorization code or a
\* refresh token): a token response made for that grant
TokenResponse(grant) ==
  [access_token |-> "access:" \o grant, refresh_token |-> << "refresh:" \o grant >>,
   expires_in |-> 3599, token_type |-> "Bearer"]

\* the results of the awaited http_request: status 200 with a token
\* response, status 200 with a body that is none, another status, or
\* Err((code, msg))
HttpReplies(grant) ==
  { [kind |-> "ok", token |-> TokenResponse(grant)],
    [kind |-> "unparsable"],
    [kind |-> "status"],
    [kind |-> "rejected"] }

\* the principals derived from the stored sessions, as texts
oauth_principals ==
  {derive_user_principal(SESSIONS[k].user_id, SESSIONS[k].origin) : k \in DOMAIN SESSIONS}

\* the USER_TOKENS.with(..) block of exchange_oauth_code and of
\* refresh_google_token: insert for the caller, then for every principal
\* derived from a session
StoreTokens(caller, token_response) ==
  [k \in DOMAIN USER_TOKENS \cup {caller} \cup oauth_principals |->
     IF k \in {caller} \cup oauth_principals THEN token_response ELSE USER_TOKENS[k]]

\* exchange_oauth_code from the point where http_request(..).await returns
exchange_oauth_code(call, reply) ==
  IF reply.kind = "rejected" THEN AuthFail(ErrHttp)
  ELSE IF reply.kind = "status" THEN AuthFail(ErrExchange)
  ELSE IF reply.kind = "unparsable" THEN AuthFail(ErrParse)
  ELSE AuthOutcome(SESSIONS, StoreTokens(call.caller, reply.token), Ok,
                   << reply.token >>)

\* refresh_google_token from the point where http_request(..).await returns
refresh_google_token(call, reply) ==
  IF reply.kind = "rejected" THEN AuthFail(ErrHttp)
  ELSE IF reply.kind = "status" THEN AuthFail(ErrRefresh)
  ELSE IF reply.kind = "unparsable" THEN AuthFail(ErrParse)
  ELSE AuthOutcome(SESSIONS, StoreTokens(call.caller, reply.token), Ok,
                   << reply.token >>)

\* ------------------------------------------------------------------------
\* Session specification: two users sign in from one origin under either of
\* two session keys, exchange a code or refresh a token (the call is
\* suspended at its outcall and resumed by the reply, other calls running
\* in between), log out, and expired sessions are cleaned up.  The caller of
\* a user is the principal derived from its user id and the origin.
\* ------------------------------------------------------------------------
AuthUsers == {"u1", "u2"}
AppOrigin == "https://weeekaly.com"
SessionKeys == {"key1", "key2"}

EmailOf(user) == << user \o "@x.com" >>
NameOf(user) == << "name of " \o user >>
CallerOf(user) == derive_user_principal(user, AppOrigin)
AuthCallers == {CallerOf(user) : user \in AuthUsers}

IdTokens ==
  {IdToken(3, << user >>, EmailOf(user), NameOf(user)) : user \in AuthUsers}
    \cup {IdToken(2, << "u1" >>, << >>, << >>), IdToken(3, << >>, << >>, << >>)}

PrepareDelegationRequests ==
  {[provider |-> provider, id_token |-> id_token, origin |-> AppOrigin,
    session_public_key |-> key, max_time_to_live |-> ttl, targets |-> << >>] :
     provider \in {"google", "github"}, id_token \in IdTokens,
     key \in SessionKeys, ttl \in 0..MaxTimeToLive}

GetDelegationRequests ==
  {[provider |-> "google", origin |-> origin, session_public_key |-> key,
    expire_at |-> expire_at, targets |-> << >>] :
     origin \in {AppOrigin, "https://evil.example"}, key \in SessionKeys,
     expire_at \in 0..(MaxTime + MaxTimeToLive)}

AuthCall(op, caller, req, o) ==
  [op |-> op, caller |-> caller, req |-> req, res |-> o.res, out |-> o.out]

AuthCommit(o, t) ==
  /\ SESSIONS' = o.sessions
  /\ USER_TOKENS' = o.tokens
  /\ clock' = t
  /\ nops' = nops + 1
  /\ UNCHANGED << availabilityVars, runs >>

PrepareDelegation ==
  /\ nops < MaxAuthOps
  /\ \E caller \in AuthCallers, req \in PrepareDelegationRequests, t \in Times :
       LET o == prepare_delegation(req, t)
       IN  /\ AuthCommit(o, t)
           /\ last' = AuthCall("prepare_delegation", caller, req, o)
           /\ UNCHANGED pending

CleanupExpiredSessions ==
  /\ nops < MaxAuthOps
  /\ \E caller \in AuthCallers, t \in Times :
       LET o == cleanup_expired_sessions(t)
       IN  /\ AuthCommit(o, t)
           /\ last' = AuthCall("cleanup_expired_sessions", caller, << >>, o)
           /\ UNCHANGED pending

Logout ==
  /\ nops < MaxAuthOps
  /\ \E caller \in AuthCallers, key \in SessionKeys :
       LET o == logout(key)
       IN  /\ AuthCommit(o, clock)
           /\ last' = AuthCall("logout", caller, key, o)
           /\ UNCHANGED pending

\* exchange_oauth_code up to its http_request(..).await: nothing is read or
\* written, the call is suspended
ExchangeOauthCode ==
  /\ nops < MaxAuthOps
  /\ \E user \in AuthUsers :
       LET call == [op |-> "exchange_oauth_code", caller |-> CallerOf(user),
                    grant |-> "code of " \o user]
       IN  /\ \A c \in pending : c.caller # call.caller
           /\ pending' = pending \cup {call}
           /\ nops' = nops + 1
           /\ last' = [op |-> "outcall", caller |-> call.caller, req |-> call.grant,
                       res |-> Ok, out |-> << >>]
           /\ UNCHANGED << availabilityVars, runs, SESSIONS, USER_TOKENS, clock >>

\* refresh_google_token up to its http_request(..).await
RefreshGoogleToken ==
  /\ nops < MaxAuthOps
  /\ \E user \in AuthUsers :
       LET call == [op |-> "refresh_google_token", caller |-> CallerOf(user),
                    grant |-> "refresh token of " \o user]
       IN  /\ \A c \in pending : c.caller # call.caller
           /\ pending' = pending \cup {call}
           /\ nops' = nops + 1
           /\ last' = [op |-> "outcall", caller |-> call.caller, req |-> call.grant,
                       res |-> Ok, out |-> << >>]
           /\ UNCHANGED << availabilityVars, runs, SESSIONS, USER_TOKENS, clock >>

\* the reply to an outcall arrives and the suspended call runs to its end
HttpReply ==
  \E call \in pending : \E reply \in HttpReplies(call.grant) :
    LET o == IF call.op = "exchange_oauth_code"
             THEN exchange_oauth_code(call, reply)
             ELSE refresh_google_token(call, reply)
    IN  /\ SESSIONS' = o.sessions
        /\ USER_TOKENS' = o.tokens
        /\ pending' = pending \ {call}
        /\ last' = AuthCall(call.op, call.caller, call.grant, o)
        /\ UNCHANGED << availabilityVars, runs, clock, nops >>

NextAuth ==
  \/ HttpReply
  \/ Logout
  \/ CleanupExpiredSessions
  \/ ExchangeOauthCode
  \/ RefreshGoogleToken
  \/ PrepareDelegation

SpecAuth == Init /\ [][NextAuth]_vars

\* ------------------------------------------------------------------------
\* Frame specification: two owners create with every combination of present
\* and absent owner_email and owner_name, and each owner deletes, sets busy
\* times on, regenerates, updates and makes favorite records of its own.
\* Only a create is sent in a later round than the call before it.  The
\* argument of a call is kept in `last`.
\* ------------------------------------------------------------------------
FrameCreateRequests ==
  {CreateRequest("Standup", "weekly", << Mon0900 >>, "UTC", owner_email, owner_name,
                 << << Busy1 >> >>) :
     owner_email \in {<< >>, << "a@x.com" >>},
     owner_name \in {<< >>, << "alice" >>}}

\* a block on the minutes of the Monday slot
BusyMon == [start_time |-> 540, end_time |-> 600]

\* no block, two blocks that overlap each other, a block over a slot
BusyBlocks == { << >>, << Busy1, Busy1 >>, << BusyMon >> }

FrameCall(op, caller, id, o, req) ==
  [op |-> op, caller |-> caller, id |-> id, res |-> o.res, out |-> o.out,
   new_id |-> o.new_id, req |-> req]

FrameCreate ==
  /\ nops < MaxFrameOps
  /\ \E caller \in Principals, req \in FrameCreateRequests, t \in Times :
       LET o == create_availability(caller, req, t)
       IN  /\ Commit(o, t)
           /\ last' = FrameCall("create", caller, "", o, req)
           /\ UNCHANGED runs

FrameDelete ==
  /\ nops < MaxFrameOps
  /\ \E id \in DOMAIN AVAILABILITIES :
       LET caller == AVAILABILITIES[id].owner
           o == delete_availability(caller, id)
       IN  /\ Commit(o, clock)
           /\ last' = FrameCall("delete", caller, id, o, << >>)
           /\ UNCHANGED runs

FrameUpdateBusyTimes ==
  /\ nops < MaxFrameOps
  /\ \E id \in DOMAIN AVAILABILITIES, busy \in BusyBlocks :
       LET caller == AVAILABILITIES[id].owner
           o == update_availability_busy_times(caller, id, busy, clock)
       IN  /\ Commit(o, clock)
           /\ last' = FrameCall("busy", caller, id, o, busy)
           /\ UNCHANGED runs

FrameRegenerate ==
  /\ nops < MaxFrameOps
  /\ \E id \in DOMAIN AVAILABILITIES :
       LET caller == AVAILABILITIES[id].owner
           o == regenerate_availability_id(caller, id, clock)
       IN  /\ Commit(o, clock)
           /\ last' = FrameCall("regenerate", caller, id, o, << >>)
           /\ UNCHANGED runs

FrameSetFavorite ==
  /\ nops < MaxFrameOps
  /\ \E id \in DOMAIN AVAILABILITIES :
       LET caller == AVAILABILITIES[id].owner
           o == set_favorite_availability(caller, id, clock)
       IN  /\ Commit(o, clock)
           /\ last' = FrameCall("favorite", caller, id, o, << >>)
           /\ UNCHANGED runs

FrameUpdate ==
  /\ nops < MaxFrameOps
  /\ \E id \in DOMAIN AVAILABILITIES :
       LET caller == AVAILABILITIES[id].owner
           req == UpdateRequest(id, << "Retro" >>, << >>, << >>, << >>)
           o == update_availability(caller, req, clock)
       IN  /\ Commit(o, clock)
           /\ last' = FrameCall("update", caller, id, o, req)
           /\ UNCHANGED runs

NextFrame ==
  \/ FrameDelete
  \/ FrameUpdateBusyTimes
  \/ FrameRegenerate
  \/ FrameSetFavorite
  \/ FrameUpdate
  \/ FrameCreate

SpecFrame == Init /\ [][NextFrame]_vars

\* ------------------------------------------------------------------------
\* Properties
\* ------------------------------------------------------------------------
Favorites(o) == {id \in Owned(AVAILABILITIES, o) : AVAILABILITIES[id].is_favorite}

Succeeded(op) == last.op = op /\ last.res = Ok

NotOwnerError(op) ==
  CASE op = "update" -> ErrOwnerUpdate
    [] op = "delete" -> ErrOwnerDelete
    [] op = "regenerate" -> ErrOwnerRegenerate
    [] op = "busy" -> ErrOwnerBusy
    [] op = "favorite" -> ErrOwnerFavorite
    [] OTHER -> ""

OwnerCheckedOps == {"update", "delete", "regenerate", "busy", "favorite"}

\* C1 as stated: every owner with at least one availability has exactly one
\* favorite, and an owner without availabilities has none.
C1_ExactlyOneFavorite ==
  \A o \in Principals :
    IF Owned(AVAILABILITIES, o) = {}
    THEN Favorites(o) = {}
    ELSE Cardinality(Favorites(o)) = 1

\* C1 (amended): in every reachable state every owner has at most one
\* availability with is_favorite = TRUE.
C1_AtMostOneFavorite ==
  \A o \in Principals : Cardinality(Favorites(o)) <= 1

\* C1 witness: a set-favorite moved the favorite of an owner of two or more
\* availabilities away from the one create had chosen.
C1_Witness ==
  /\ Succeeded("favorite")
  /\ Cardinality(Owned(AVAILABILITIES, last.caller)) >= 2
  /\ Favorites(last.caller) = {last.id}
  /\ last.id # Head(IdsOf(USER_AVAILABILITIES, last.caller))

\* C2: after a successful set-favorite of X by caller, X is the caller's only
\* favorite, X has display_order 0, and the display_order values of the
\* caller's other k-1 availabilities are exactly 1..k-1.
C2_SetFavoriteRanks ==
  Succeeded("favorite") =>
    LET own == Owned(AVAILABILITIES, last.caller)
    IN  /\ Favorites(last.caller) = {last.id}
        /\ AVAILABILITIES[last.id].display_order = 0
        /\ {AVAILABILITIES[id].display_order : id \in own \ {last.id}}
             = 1..(Cardinality(own) - 1)

\* C3: for every owner, the index sequence holds, without duplicates, exactly
\* the ids of the stored records that owner owns.
C3_IndexLockstep ==
  \A o \in Principals :
    LET ids == IdsOf(USER_AVAILABILITIES, o)
    IN  /\ Range(ids) = Owned(AVAILABILITIES, o)
        /\ Cardinality(Range(ids)) = Len(ids)

\* C4: in every reachable state and for every value of the time source, the
\* id the generator mints is not a key of the store.
C4_MintedIdIsFresh ==
  \A t \in 0..MaxTime : generate_availability_id(t) \notin DOMAIN AVAILABILITIES

\* C5: a mutating call on an existing id by a caller who is not its owner
\* returns the NotOwner failure of that operation; get returns the stored
\* record whoever asks.
C5_NotOwnerRejected ==
  /\ [][(/\ last'.op \in OwnerCheckedOps
         /\ last'.id \in DOMAIN AVAILABILITIES
         /\ AVAILABILITIES[last'.id].owner # last'.caller)
        => last'.res = NotOwnerError(last'.op)]_vars
  /\ [](\A id \in DOMAIN AVAILABILITIES :
          /\ get_availability(id).res = Ok
          /\ get_availability(id).out = << AVAILABILITIES[id] >>)

\* C5 witness: a call by someone who is not the owner of an existing record
\* was rejected.
C5_Witness ==
  /\ last.op \in OwnerCheckedOps
  /\ last.id \in DOMAIN AVAILABILITIES
  /\ AVAILABILITIES[last.id].owner # last.caller
  /\ last.res = NotOwnerError(last.op)

\* C6: a call that returns a failure leaves the store, the owner index and
\* both lookup indices as they were.
C6_FailureChangesNothing ==
  [][last'.res # Ok =>
       UNCHANGED << AVAILABILITIES, USER_AVAILABILITIES,
                    EMAIL_TO_PRINCIPAL, USERNAME_TO_PRINCIPAL >>]_vars

\* C6 witness: the owner's update with a valid title and an invalid slot
\* was rejected, and the stored title is not the requested one.
C6_Witness ==
  /\ last.op = "update"
  /\ last.res = ErrStartEnd
  /\ AVAILABILITIES[last.id].owner = last.caller
  /\ AVAILABILITIES[last.id].title # "Retro"

\* C7: right after a successful delete the id is no key of the store, is not
\* in the caller's index, is the id of no listed record, and get finds nothing.
C7_DeleteRemoves ==
  Succeeded("delete") =>
    /\ last.id \notin DOMAIN AVAILABILITIES
    /\ last.id \notin Range(IdsOf(USER_AVAILABILITIES, last.caller))
    /\ \A i \in 1..Len(list_user_availabilities(last.caller)) :
         list_user_availabilities(last.caller)[i].id # last.id
    /\ get_availability(last.id).res = ErrNotFound

\* C7 witness: a delete succeeded and the caller still lists another record.
C7_Witness ==
  /\ Succeeded("delete")
  /\ list_user_availabilities(last.caller) # << >>

\* C8: after a successful regenerate of old returning new, old is no key of
\* the store (get finds nothing), the record under new is the previous
\* record changed in id and updated_at only, and the caller's index is the
\* previous one with new where old was.
C8_RegenerateMoves ==
  [][(last'.op = "regenerate" /\ last'.res = Ok) =>
       LET old == last'.id
           new == last'.new_id
           ids == IdsOf(USER_AVAILABILITIES, last'.caller)
       IN  /\ old \notin DOMAIN AVAILABILITIES'
           /\ new \in DOMAIN AVAILABILITIES'
           /\ AVAILABILITIES'[new] =
                [AVAILABILITIES[old] EXCEPT
                   !.id = new,
                   !.updated_at = AVAILABILITIES'[new].updated_at]
           /\ IdsOf(USER_AVAILABILITIES', last'.caller) =
                [i \in 1..Len(ids) |-> IF ids[i] = old THEN new ELSE ids[i]]]_vars

\* C9: while an owner who started with no availability only creates, the
\* j-th record it created is stored with display_order j-1 and is the
\* favorite exactly when j = 1.
C9_CreatesRankInOrder ==
  \A o \in Principals :
    runs[o].fresh =>
      \A j \in 1..Len(runs[o].recs) :
        LET id == runs[o].recs[j].id
        IN  /\ id \in DOMAIN AVAILABILITIES
            /\ AVAILABILITIES[id].is_favorite = (j = 1)
            /\ AVAILABILITIES[id].display_order = j - 1

\* C10: as long as the owner makes no further successful mutation, get on the
\* id of the record its create returned yields that record, field for field.
C10_CreateGetRoundTrip ==
  \A o \in Principals :
    runs[o].recs # << >> =>
      LET r == runs[o].recs[Len(runs[o].recs)]
      IN  /\ get_availability(r.id).res = Ok
          /\ get_availability(r.id).out = << r >>

\* C11 as stated: in every reachable state, for every owner with k >= 1 stored
\* availabilities, the display_order values of those availabilities are
\* pairwise distinct and are exactly 0..k-1.
C11_DenseRanking ==
  \A o \in Principals :
    LET own == Owned(AVAILABILITIES, o)
    IN  /\ \A a, b \in own :
             a # b => AVAILABILITIES[a].display_order # AVAILABILITIES[b].display_order
        /\ {AVAILABILITIES[id].display_order : id \in own}
             = 0..(Cardinality(own) - 1)

\* C11 (amended): right after a successful set-favorite the caller's
\* availabilities hold pairwise distinct display_order values, the favorite
\* holds 0 and every other one a value from 1 up to the index length less
\* one; nothing makes the values dense in the states in between.
C11_DistinctAfterSetFavorite ==
  Succeeded("favorite") =>
    LET own == Owned(AVAILABILITIES, last.caller)
        n   == Len(IdsOf(USER_AVAILABILITIES, last.caller))
    IN  /\ \A a, b \in own :
             a # b => AVAILABILITIES[a].display_order # AVAILABILITIES[b].display_order
        /\ AVAILABILITIES[last.id].display_order = 0
        /\ \A a \in own \ {last.id} :
             AVAILABILITIES[a].display_order \in 1..(n - 1)

\* C11 witness: a set-favorite by an owner of three availabilities that
\* promoted the last one of the caller's index.
C11_Witness ==
  /\ Succeeded("favorite")
  /\ Cardinality(Owned(AVAILABILITIES, last.caller)) >= 3
  /\ LET ids == IdsOf(USER_AVAILABILITIES, last.caller)
     IN  last.id = ids[Len(ids)]

\* C12: in every reachable state every stored availability that is a favorite
\* has display_order 0.
C12_FavoriteIsRankZero ==
  \A id \in DOMAIN AVAILABILITIES :
    AVAILABILITIES[id].is_favorite => AVAILABILITIES[id].display_order = 0

\* C12 witness: a set-favorite promoted a record that is not the first of the
\* caller's index (create gave it a display_order above 0), and the record it
\* displaced is stored too.
C12_Witness ==
  /\ Succeeded("favorite")
  /\ last.id # Head(IdsOf(USER_AVAILABILITIES, last.caller))
  /\ AVAILABILITIES[last.id].is_favorite
  /\ \E id \in Owned(AVAILABILITIES, last.caller) :
       AVAILABILITIES[id].display_order > 0

\* the positions of id in an index sequence
Positions(ids, id) == {i \in 1..Len(ids) : ids[i] = id}

Max(S) == CHOOSE x \in S : \A y \in S : y <= x

\* the caller's stored records other than the new favorite, as the step
\* that ends in last' found them
Others == Owned(AVAILABILITIES, last'.caller) \ {last'.id}

\* C13: a successful set-favorite of X ranks the caller's other records by
\* index position: when A occurs before B in the caller's index, A has the
\* smaller display_order after the call.
C13_RanksByIndexPosition ==
  [][(last'.op = "favorite" /\ last'.res = Ok) =>
       LET ids == IdsOf(USER_AVAILABILITIES, last'.caller)
       IN  \A A, B \in Others :
             (A # B /\ \E i \in Positions(ids, A), j \in Positions(ids, B) : i < j)
               => AVAILABILITIES'[A].display_order < AVAILABILITIES'[B].display_order]_vars

\* C14 as stated: a successful set-favorite of X keeps the caller's other
\* records in the order their display_order values had before the call.
C14_KeepsPriorOrder ==
  [][(last'.op = "favorite" /\ last'.res = Ok) =>
       \A A, B \in Others :
         AVAILABILITIES[A].display_order < AVAILABILITIES[B].display_order
           => AVAILABILITIES'[A].display_order < AVAILABILITIES'[B].display_order]_vars

\* C14 (amended): a successful set-favorite of X ranks the caller's other
\* records by their last position in the caller's index, whatever their
\* display_order values were before the call.
C14_RanksByLastIndexPosition ==
  [][(last'.op = "favorite" /\ last'.res = Ok) =>
       LET ids == IdsOf(USER_AVAILABILITIES, last'.caller)
       IN  \A A, B \in Others :
             (Positions(ids, A) # {} /\ Positions(ids, B) # {}
                /\ Max(Positions(ids, A)) < Max(Positions(ids, B)))
               => AVAILABILITIES'[A].display_order < AVAILABILITIES'[B].display_order]_vars

\* C14 witness: some time after its creation the first record of an index
\* of three or more has been made the favorite, and the others, all the
\* caller's own, are ranked 1, 2, .. by index position.
C14_Witness ==
  /\ Succeeded("favorite")
  /\ LET ids == IdsOf(USER_AVAILABILITIES, last.caller)
     IN  /\ Len(ids) >= 3
         /\ last.id = ids[1]
         /\ AVAILABILITIES[last.id].updated_at > AVAILABILITIES[last.id].created_at
         /\ \A i \in 2..Len(ids) :
              /\ ids[i] \in Owned(AVAILABILITIES, last.caller)
              /\ AVAILABILITIES[ids[i]].display_order = i - 1

\* C15: a batch search returns one list per key, in key order, the i-th being
\* what the single-key search returns for the i-th key and empty for a key
\* that matches nothing.
C15_BatchSearch ==
  /\ \A emails \in KeySeqs(SearchEmails) :
       LET r == search_by_emails(emails)
       IN  /\ Len(r) = Len(emails)
           /\ \A i \in 1..Len(emails) :
                /\ r[i] = search_availabilities_by_email(emails[i])
                /\ emails[i] \notin DOMAIN EMAIL_TO_PRINCIPAL => r[i] = << >>
  /\ \A usernames \in KeySeqs(SearchUsernames) :
       LET r == search_by_usernames(usernames)
       IN  /\ Len(r) = Len(usernames)
           /\ \A i \in 1..Len(usernames) :
                /\ r[i] = search_availabilities_by_username(usernames[i])
                /\ usernames[i] \notin DOMAIN USERNAME_TO_PRINCIPAL => r[i] = << >>

\* C15 witness: a batch of an unmatched and a matched email, the matched
\* one's owner having two records to list.
C15_Witness ==
  LET r == search_by_emails(<< "nobody@x.com", "a@x.com" >>)
  IN  r[1] = << >> /\ Len(r[2]) >= 2

Reorderings(n) ==
  {f \in [1..n -> 1..n] : \A i, j \in 1..n : f[i] = f[j] => i = j}

\* C16: check_slot_overlaps rejects a sequence of structurally valid slots
\* exactly when two of its slots share the day and have start1 < end2 and
\* start2 < end1; every permutation of the sequence gets the same verdict,
\* slots on pairwise different days are accepted, and so are two same-day
\* slots of which one ends where the other starts.
C16_OverlapCheck ==
  last.op = "check_slot_overlaps" =>
    LET slots == last.slots
        n == Len(slots)
        Conflict(a, b) == /\ a.day_of_week = b.day_of_week
                          /\ a.start_time < b.end_time
                          /\ b.start_time < a.end_time
    IN  /\ last.res # Ok <=>
             \E i, j \in 1..n : i # j /\ Conflict(slots[i], slots[j])
        /\ \A f \in Reorderings(n) :
             (check_slot_overlaps([i \in 1..n |-> slots[f[i]]]) = Ok) <=> (last.res = Ok)
        /\ (\A i, j \in 1..n :
               i # j => slots[i].day_of_week # slots[j].day_of_week)
             => last.res = Ok
        /\ (/\ n = 2
            /\ slots[1].day_of_week = slots[2].day_of_week
            /\ slots[1].end_time = slots[2].start_time)
             => last.res = Ok

\* C16 witness: a rejected sequence of three Monday slots whose first two
\* touch and whose third overlaps the first.
C16_Witness ==
  /\ last.op = "check_slot_overlaps"
  /\ last.slots = << [day_of_week |-> 1, start_time |-> 540, end_time |-> 600],
                     [day_of_week |-> 1, start_time |-> 600, end_time |-> 660],
                     [day_of_week |-> 1, start_time |-> 550, end_time |-> 650] >>
  /\ last.res # Ok

\* what C17 and C19 call a structurally valid slot
StructurallyValid(slot) ==
  /\ slot.day_of_week <= 6
  /\ slot.start_time < slot.end_time
  /\ slot.end_time < 1440

HasInvalidSlot(slots) == \E i \in 1..Len(slots) : ~StructurallyValid(slots[i])

\* C17: a create or an update whose slot set holds a slot with
\* start_time >= end_time, day_of_week > 6, start_time >= 1440 or
\* end_time >= 1440, at whatever position, is rejected; and every slot of
\* every stored availability has day_of_week <= 6 and
\* start_time < end_time < 1440.
C17_InvalidSlotRejected ==
  /\ \A id \in DOMAIN AVAILABILITIES :
       \A i \in 1..Len(AVAILABILITIES[id].slots) :
         StructurallyValid(AVAILABILITIES[id].slots[i])
  /\ (last.op = "create" /\ HasInvalidSlot(last.req.slots)) => last.res # Ok
  /\ (last.op = "update" /\ last.req.slots # << >>
        /\ HasInvalidSlot(last.req.slots[1])) => last.res # Ok

\* C17 witness: the owner's update that puts a slot with start = end behind
\* a valid one has been rejected for it.
C17_Witness ==
  /\ last.op = "update"
  /\ last.req.slots = << << Mon0900, BadSlot >> >>
  /\ last.res = ErrStartEnd
  /\ last.id \in DOMAIN AVAILABILITIES

AllAbsent(req) ==
  req.title = << >> /\ req.description = << >> /\ req.slots = << >>
    /\ req.timezone = << >>

\* C18: a successful update leaves every field whose request field is absent
\* as it was, leaves id, owner, owner_email, owner_name, created_at,
\* busy_times, is_favorite and display_order as they were, and leaves every
\* other record, the owner index and the lookup indices unchanged; the
\* owner's request with every optional field absent succeeds and changes
\* updated_at only.
C18_UpdateFrame ==
  [][last'.op = "update" =>
       LET id  == last'.id
           req == last'.req
           old == AVAILABILITIES[id]
           new == AVAILABILITIES'[id]
       IN  /\ last'.res = Ok =>
                /\ req.title = << >> => new.title = old.title
                /\ req.description = << >> => new.description = old.description
                /\ req.slots = << >> => new.slots = old.slots
                /\ req.timezone = << >> => new.timezone = old.timezone
                /\ new.id = old.id
                /\ new.owner = old.owner
                /\ new.owner_email = old.owner_email
                /\ new.owner_name = old.owner_name
                /\ new.created_at = old.created_at
                /\ new.busy_times = old.busy_times
                /\ new.is_favorite = old.is_favorite
                /\ new.display_order = old.display_order
                /\ new.updated_at = clock'
                /\ DOMAIN AVAILABILITIES' = DOMAIN AVAILABILITIES
                /\ \A x \in DOMAIN AVAILABILITIES \ {id} :
                     AVAILABILITIES'[x] = AVAILABILITIES[x]
                /\ UNCHANGED << USER_AVAILABILITIES, EMAIL_TO_PRINCIPAL,
                                USERNAME_TO_PRINCIPAL >>
           /\ (AllAbsent(req) /\ old.owner = last'.caller) =>
                /\ last'.res = Ok
                /\ new = [old EXCEPT !.updated_at = clock']]_vars

\* C18 witness: a request with every optional field absent, sent after the
\* round of the record's last change, has updated a record that is not the
\* favorite.
C18_Witness ==
  /\ Succeeded("update")
  /\ AllAbsent(last.req)
  /\ ~last.before[1].is_favorite
  /\ last.before[1].display_order = 1
  /\ AVAILABILITIES[last.id].updated_at > last.before[1].updated_at

\* C19: for every stored availability and every slot sequence S, the owner's
\* update with slots = S succeeds exactly when a create with slots = S and a
\* valid title and description does, whatever slots are stored, and after a
\* successful one the stored slots are S.
C19_UpdateValidatesLikeCreate ==
  /\ \A id \in DOMAIN AVAILABILITIES, slots \in SlotInputs :
       LET u == update_availability(AVAILABILITIES[id].owner,
                                    UpdateRequest(id, << >>, << >>, << slots >>, << >>),
                                    clock)
           c == create_availability(FieldOwner, FieldCreateRequest(slots), clock)
       IN  /\ u.res = Ok <=> c.res = Ok
           /\ u.res = Ok => u.av[id].slots = slots
  /\ (Succeeded("update") /\ last.req.slots # << >>)
       => AVAILABILITIES[last.id].slots = last.req.slots[1]

\* C19 witness: a record that held the one slot Monday 540-600 holds, after
\* a successful update to it, the one slot Tuesday 550-650.
C19_Witness ==
  /\ Succeeded("update")
  /\ last.before[1].slots = << Mon0900 >>
  /\ last.req.slots = << << Tue0910 >> >>
  /\ AVAILABILITIES[last.id].slots = << Tue0910 >>

\* the ids get_availability is asked for when they are no key: the one no
\* call mints and the ones the generator samples
AbsentIds == ({MissingId} \cup {SampleId(t) : t \in 0..MaxTime}) \ DOMAIN AVAILABILITIES

\* C21: update, delete, regenerate, set-favorite and update-busy-times on an
\* id that is no key of the store return "Availability not found" whoever
\* calls, and so does get.
C21_MissingIdNotFound ==
  /\ (last.op \in OwnerCheckedOps /\ last.id = MissingId) => last.res = ErrNotFound
  /\ \A id \in AbsentIds :
       get_availability(id).res = ErrNotFound /\ get_availability(id).out = << >>

\* C21 witness: somebody who owns nothing asked to regenerate an id that is
\* no key while other records are stored, and got the not-found failure.
C21_Witness ==
  /\ last.op = "regenerate"
  /\ last.id = MissingId
  /\ last.res = ErrNotFound
  /\ AVAILABILITIES # << >>
  /\ Owned(AVAILABILITIES, last.caller) = {}

\* C22 as stated: a set-favorite by a caller whose index entry is empty or
\* absent fails with "No availabilities found".
C22_EmptyCollection ==
  (last.op = "favorite" /\ IdsOf(USER_AVAILABILITIES, last.caller) = << >>)
    => last.res = ErrEmpty

\* C22 (amended): a set-favorite by a caller whose index entry is empty or
\* absent fails with "Availability not found" when the id is no key and with
\* "Only the owner can set favorite" when it is one; no call returns "No
\* availabilities found".
C22_FailsOnTargetCheck ==
  /\ (last.op = "favorite" /\ IdsOf(USER_AVAILABILITIES, last.caller) = << >>)
       => last.res = IF last.id \in DOMAIN AVAILABILITIES
                     THEN ErrOwnerFavorite ELSE ErrNotFound
  /\ last.res # ErrEmpty

\* C22 witness: a caller without index entry asked to make somebody else's
\* record its favorite.
C22_Witness ==
  /\ last.op = "favorite"
  /\ last.caller \notin DOMAIN USER_AVAILABILITIES
  /\ last.id \in DOMAIN AVAILABILITIES
  /\ last.res = ErrOwnerFavorite

\* the stored records of the index of the caller of the last call
IndexedRecords ==
  Range(IdsOf(USER_AVAILABILITIES, last.caller)) \cap DOMAIN AVAILABILITIES

\* C23: a successful update, update-busy-times or regenerate leaves the
\* record it changed with updated_at at the time of the call, a successful
\* set-favorite does so for every stored record of the caller's index; no
\* call changes the created_at of a record, which regenerate carries over to
\* the new id; and created_at <= updated_at holds for every stored record.
C23_Timestamps ==
  /\ [](\A id \in DOMAIN AVAILABILITIES :
          AVAILABILITIES[id].created_at <= AVAILABILITIES[id].updated_at)
  /\ [](/\ Succeeded("update") => AVAILABILITIES[last.id].updated_at = clock
        /\ Succeeded("busy") => AVAILABILITIES[last.id].updated_at = clock
        /\ Succeeded("regenerate") => AVAILABILITIES[last.new_id].updated_at = clock
        /\ Succeeded("favorite") =>
             \A id \in IndexedRecords : AVAILABILITIES[id].updated_at = clock)
  /\ [][LET moved   == IF last'.op = "regenerate" /\ last'.res = Ok
                       THEN {last'.new_id} ELSE {}
            created == IF last'.op = "create" /\ last'.res = Ok
                       THEN {last'.out[1].id} ELSE {}
        IN  /\ \A id \in DOMAIN AVAILABILITIES' \ (moved \cup created) :
                 /\ id \in DOMAIN AVAILABILITIES
                 /\ AVAILABILITIES'[id].created_at = AVAILABILITIES[id].created_at
            /\ \A id \in moved :
                 AVAILABILITIES'[id].created_at = AVAILABILITIES[last'.id].created_at
            /\ \A id \in created :
                 AVAILABILITIES'[id].created_at = clock']_vars

\* C23 witness: a set-favorite in a later round than the creation of a record
\* of the caller's index other than the target has stamped that record.
C23_Witness ==
  /\ Succeeded("favorite")
  /\ \E id \in IndexedRecords \ {last.id} :
       /\ AVAILABILITIES[id].created_at < AVAILABILITIES[id].updated_at
       /\ AVAILABILITIES[id].updated_at = clock

\* C24: in every step the record under an id that is a key of the store
\* before and after has the same owner before and after, and a successful
\* regenerate stores under the new id a record with the owner of the record
\* under the old id.
C24_OwnershipImmutable ==
  [][/\ \A id \in DOMAIN AVAILABILITIES \cap DOMAIN AVAILABILITIES' :
          AVAILABILITIES'[id].owner = AVAILABILITIES[id].owner
     /\ (last'.op = "regenerate" /\ last'.res = Ok) =>
          AVAILABILITIES'[last'.new_id].owner = AVAILABILITIES[last'.id].owner]_vars

\* a lookup map after a create by caller whose request carries key (an
\* Option): the key, when present, now leads to the caller
Upserted(map, key, caller) ==
  [k \in (DOMAIN map) \cup Range(key) |-> IF k \in Range(key) THEN caller ELSE map[k]]

\* C25: a successful create makes the email and the name its request carries
\* lead to its caller, replacing an earlier owner, and writes nothing for an
\* absent field; no other call writes the lookup indices; so the search by
\* an email or a name lists the index of the caller of the latest successful
\* create that carried it, is empty when there was none, and the search by
\* owner is the owner's list.
C25_LookupLastWriteWins ==
  /\ [][IF last'.op = "create" /\ last'.res = Ok
        THEN /\ EMAIL_TO_PRINCIPAL' =
                  Upserted(EMAIL_TO_PRINCIPAL, last'.req.owner_email, last'.caller)
             /\ USERNAME_TO_PRINCIPAL' =
                  Upserted(USERNAME_TO_PRINCIPAL, last'.req.owner_name, last'.caller)
        ELSE UNCHANGED << EMAIL_TO_PRINCIPAL, USERNAME_TO_PRINCIPAL >>]_vars
  /\ [](/\ \A e \in SearchEmails :
             search_availabilities_by_email(e) =
               IF e \in DOMAIN EMAIL_TO_PRINCIPAL
               THEN list_user_availabilities(EMAIL_TO_PRINCIPAL[e]) ELSE << >>
        /\ \A n \in SearchUsernames :
             search_availabilities_by_username(n) =
               IF n \in DOMAIN USERNAME_TO_PRINCIPAL
               THEN list_user_availabilities(USERNAME_TO_PRINCIPAL[n]) ELSE << >>
        /\ \A o \in Principals :
             search_availabilities_by_principal(o) = list_user_availabilities(o))

\* C25 witness: the latest create that carried a@x.com (and no name) came
\* from another owner than the one whose stored record carries it too, and
\* the search by that email lists the latest one's index.
C25_Witness ==
  /\ Succeeded("create")
  /\ last.req.owner_email = << "a@x.com" >>
  /\ last.req.owner_name = << >>
  /\ \E id \in DOMAIN AVAILABILITIES :
       /\ AVAILABILITIES[id].owner # last.caller
       /\ AVAILABILITIES[id].owner_email = << "a@x.com" >>
  /\ search_availabilities_by_email("a@x.com") = list_user_availabilities(last.caller)

\* C26: a successful delete removes the record under id and every occurrence
\* of id from the caller's index sequence and changes nothing else: the other
\* records keep every field, the other ids of the index keep their order,
\* the other owners' index entries and both lookup indices stay as they are.
C26_DeleteFrame ==
  [][(last'.op = "delete" /\ last'.res = Ok) =>
       LET id  == last'.id
           ids == IdsOf(USER_AVAILABILITIES, last'.caller)
           kept == {i \in 1..Len(ids) : ids[i] # id}
           left == IdsOf(USER_AVAILABILITIES', last'.caller)
       IN  /\ DOMAIN AVAILABILITIES' = DOMAIN AVAILABILITIES \ {id}
           /\ \A x \in DOMAIN AVAILABILITIES' : AVAILABILITIES'[x] = AVAILABILITIES[x]
           /\ Len(left) = Cardinality(kept)
           /\ \A i \in kept : left[Cardinality({j \in kept : j <= i})] = ids[i]
           /\ DOMAIN USER_AVAILABILITIES' = DOMAIN USER_AVAILABILITIES
           /\ \A o \in DOMAIN USER_AVAILABILITIES \ {last'.caller} :
                USER_AVAILABILITIES'[o] = USER_AVAILABILITIES[o]
           /\ UNCHANGED << EMAIL_TO_PRINCIPAL, USERNAME_TO_PRINCIPAL >>]_vars

\* C26 witness: an owner whom an email leads to has deleted its favorite and
\* is left with a record that is not a favorite and has display_order 1.
C26_Witness ==
  /\ Succeeded("delete")
  /\ Favorites(last.caller) = {}
  /\ \E id \in Owned(AVAILABILITIES, last.caller) :
       AVAILABILITIES[id].display_order = 1
  /\ \E e \in DOMAIN EMAIL_TO_PRINCIPAL : EMAIL_TO_PRINCIPAL[e] = last.caller

\* C27: a successful update-busy-times with argument B leaves the record
\* with busy_times B and updated_at the time of the call and every other
\* field as it was, and leaves the other records, the owner index and both
\* lookup indices unchanged.
C27_BusyTimesFrame ==
  [][(last'.op = "busy" /\ last'.res = Ok) =>
       /\ DOMAIN AVAILABILITIES' = DOMAIN AVAILABILITIES
       /\ AVAILABILITIES'[last'.id] =
            [AVAILABILITIES[last'.id] EXCEPT !.busy_times = << last'.req >>,
                                             !.updated_at = clock']
       /\ \A x \in DOMAIN AVAILABILITIES \ {last'.id} :
            AVAILABILITIES'[x] = AVAILABILITIES[x]
       /\ UNCHANGED << USER_AVAILABILITIES, EMAIL_TO_PRINCIPAL,
                       USERNAME_TO_PRINCIPAL >>]_vars

\* C27 witness: an empty argument has replaced the block a record was
\* created with, in a later round than its creation.
C27_Witness ==
  /\ Succeeded("busy")
  /\ last.req = << >>
  /\ AVAILABILITIES[last.id].busy_times = << << >> >>
  /\ AVAILABILITIES[last.id].updated_at > AVAILABILITIES[last.id].created_at

\* C28: create accepts a request exactly when the title has 1 to 100
\* characters, the description at most 500, the slot sequence is not empty,
\* every slot is structurally valid and no two slots of one day overlap; and
\* update accepts a new title exactly when it has 1 to 100 characters and a
\* new description exactly when it has at most 500.
C28_LengthBounds ==
  LET TitleOk(title) == Len(title) >= 1 /\ Len(title) <= 100
      DescriptionOk(description) == Len(description) <= 500
      SlotsOk(slots) ==
        /\ Len(slots) >= 1
        /\ ~HasInvalidSlot(slots)
        /\ \A i, j \in 1..Len(slots) :
             (i # j /\ slots[i].day_of_week = slots[j].day_of_week)
               => \/ slots[i].end_time <= slots[j].start_time
                  \/ slots[j].end_time <= slots[i].start_time
  IN  /\ last.op = "create" =>
           (last.res = Ok <=> /\ TitleOk(last.req.title)
                              /\ DescriptionOk(last.req.description)
                              /\ SlotsOk(last.req.slots))
      /\ last.op = "update" =>
           (last.res = Ok <=>
              /\ last.req.title # << >> => TitleOk(last.req.title[1])
              /\ last.req.description # << >>
                   => DescriptionOk(last.req.description[1]))

\* the title and description checks of the validator, and the first slot of
\* a sequence that is not structurally valid
TitleRejected(title) == len(title) = 0 \/ len(title) > 100
DescriptionRejected(description) == len(description) > 500
FirstInvalidSlot(slots) ==
  slots[Min({i \in 1..Len(slots) : ~StructurallyValid(slots[i])})]

\* C29: create reports the first violation in the order title, description,
\* empty slot sequence, then the first structurally invalid slot of the
\* sequence with its first failed check in the order day, start bound, end
\* bound, start before end, and an overlap only when every slot is
\* structurally valid.
C29_FirstViolation ==
  last.op = "create" =>
    LET title == last.req.title
        description == last.req.description
        slots == last.req.slots
        FieldsOk == ~TitleRejected(title) /\ ~DescriptionRejected(description)
        slot == FirstInvalidSlot(slots)
    IN  /\ TitleRejected(title) => last.res = ErrTitle
        /\ (~TitleRejected(title) /\ DescriptionRejected(description))
             => last.res = ErrDescription
        /\ (FieldsOk /\ slots = << >>) => last.res = ErrNoSlot
        /\ (FieldsOk /\ HasInvalidSlot(slots)) =>
             /\ slot.day_of_week > 6 => last.res = ErrDay
             /\ (slot.day_of_week <= 6 /\ slot.start_time >= 1440)
                  => last.res = ErrStart
             /\ (slot.day_of_week <= 6 /\ slot.start_time < 1440
                   /\ slot.end_time >= 1440) => last.res = ErrEnd
             /\ (slot.day_of_week <= 6 /\ slot.start_time < 1440
                   /\ slot.end_time < 1440) => last.res = ErrStartEnd
        /\ (FieldsOk /\ slots # << >> /\ ~HasInvalidSlot(slots)) =>
             last.res \in {Ok, OverlapMessage(Mon0900, Mon0910),
                           OverlapMessage(Mon0910, Mon0900),
                           OverlapMessage(Mon0900, Mon0900),
                           OverlapMessage(Mon0910, Mon0910)}

\* C29 witness: a create whose slots are an overlapping pair followed by a
\* slot with start = end was rejected for the slot, not for the overlap.
C29_Witness ==
  /\ last.op = "create"
  /\ last.req.slots = << Mon0900, Mon0910, BadSlot >>
  /\ last.res = ErrStartEnd

\* the identifier a successful create or regenerate has just made
MadeId == IF last.op = "create" THEN last.out[1].id ELSE last.new_id

\* the 6-character texts the generator samples
Samples == {Repeat(c, 6) : c \in Range(CHARSET)}

C32_ListOwnRecordsOnce ==
  /\ \A o \in Principals :
       LET listed == list_user_availabilities(o)
       IN  /\ \A i \in 1..Len(listed) : listed[i].owner = o
           /\ \A i, j \in 1..Len(listed) : i # j => listed[i] # listed[j]
           /\ search_availabilities_by_principal(o) = listed
  /\ \A email \in DOMAIN EMAIL_TO_PRINCIPAL :
       search_availabilities_by_email(email)
         = list_user_availabilities(EMAIL_TO_PRINCIPAL[email])
  /\ \A username \in DOMAIN USERNAME_TO_PRINCIPAL :
       search_availabilities_by_username(username)
         = list_user_availabilities(USERNAME_TO_PRINCIPAL[username])

\* C33: in every step of a call, every record whose owner is not the caller
\* is stored unchanged under its key after the step, and the index of every
\* owner other than the caller is unchanged.
C33_OthersUntouched ==
  [][/\ \A id \in DOMAIN AVAILABILITIES :
          AVAILABILITIES[id].owner # last'.caller =>
            /\ id \in DOMAIN AVAILABILITIES'
            /\ AVAILABILITIES'[id] = AVAILABILITIES[id]
     /\ \A o \in Principals \ {last'.caller} :
          /\ (o \in DOMAIN USER_AVAILABILITIES') = (o \in DOMAIN USER_AVAILABILITIES)
          /\ IdsOf(USER_AVAILABILITIES', o) = IdsOf(USER_AVAILABILITIES, o)]_vars

\* C34: every record of the store is stored under its own id, and that id
\* occurs in the index of the record's owner; so a set-favorite whose target
\* exists and belongs to the caller finds the caller's index non-empty.
C34_StoredUnderOwnIdAndIndexed ==
  /\ \A id \in DOMAIN AVAILABILITIES :
       /\ AVAILABILITIES[id].id = id
       /\ id \in Range(IdsOf(USER_AVAILABILITIES, AVAILABILITIES[id].owner))
  /\ \A caller \in Principals : \A id \in Owned(AVAILABILITIES, caller) :
       set_favorite_availability(caller, id, clock).res = Ok

\* C34 witness: a regenerate has just moved a record to a new id, and that
\* id is in the owner's index.
C34_Witness ==
  /\ last.op = "regenerate"
  /\ last.res = Ok
  /\ last.new_id # last.id
  /\ last.new_id \in DOMAIN AVAILABILITIES
  /\ last.new_id \in Range(IdsOf(USER_AVAILABILITIES, last.caller))

\* C35: an id that the previous operation retired (delete removed it, or
\* regenerate replaced it, so it is no key of the store now) is no key after
\* the next operation either, whoever calls it and at whatever time: no
\* create or regenerate stores a record under a retired id again.
C35_RetiredIdStaysAbsent ==
  [][(/\ last.op \in {"delete", "regenerate"}
      /\ last.res = Ok
      /\ last.id \notin DOMAIN AVAILABILITIES)
       => last.id \notin DOMAIN AVAILABILITIES']_vars

\* C36: a successful set-favorite leaves the keys of the store, every owner
\* index, both lookup indices and the ids list_user_availabilities returns
\* for the caller, in their order, as they were; a record of the caller's
\* index changes in is_favorite, display_order and updated_at at most, and
\* every other record not at all.
C36_SetFavoriteFrame ==
  [][(last'.op = "favorite" /\ last'.res = Ok) =>
       /\ DOMAIN AVAILABILITIES' = DOMAIN AVAILABILITIES
       /\ UNCHANGED << USER_AVAILABILITIES, EMAIL_TO_PRINCIPAL,
                       USERNAME_TO_PRINCIPAL >>
       /\ \A caller \in Principals \cap {last'.caller} :
            LET listed == list_user_availabilities(caller)
                listed_after == list_user_availabilities(caller)'
            IN  [i \in 1..Len(listed_after) |-> listed_after[i].id]
                  = [i \in 1..Len(listed) |-> listed[i].id]
       /\ \A x \in DOMAIN AVAILABILITIES :
            IF x \in Range(IdsOf(USER_AVAILABILITIES, last'.caller))
            THEN AVAILABILITIES'[x] =
                   [AVAILABILITIES[x] EXCEPT
                      !.is_favorite = AVAILABILITIES'[x].is_favorite,
                      !.display_order = AVAILABILITIES'[x].display_order,
                      !.updated_at = AVAILABILITIES'[x].updated_at]
            ELSE AVAILABILITIES'[x] = AVAILABILITIES[x]]_vars

\* C36 witness: the caller has made the second record of its list its
\* favorite, and the list still starts with the other one.
C36_Witness ==
  /\ Succeeded("favorite")
  /\ Len(list_user_availabilities(last.caller)) >= 2
  /\ list_user_availabilities(last.caller)[2].id = last.id
  /\ list_user_availabilities(last.caller)[2].is_favorite
  /\ ~ list_user_availabilities(last.caller)[1].is_favorite

\* C37: right after a successful set-favorite, the same call again (at the
\* same or a later time) succeeds and leaves is_favorite and display_order of
\* every record as the first call left them.
C37_SetFavoriteIdempotent ==
  Succeeded("favorite") =>
    \A t \in Times :
      LET again == set_favorite_availability(last.caller, last.id, t)
      IN  /\ again.res = Ok
          /\ DOMAIN again.av = DOMAIN AVAILABILITIES
          /\ \A x \in DOMAIN AVAILABILITIES :
               /\ again.av[x].is_favorite = AVAILABILITIES[x].is_favorite
               /\ again.av[x].display_order = AVAILABILITIES[x].display_order

\* C37 witness: the favorite just set is the second of two records of the
\* caller's list, the other one is ranked 1, and a later time is left at
\* which the second call stamps the records anew.
C37_Witness ==
  /\ Succeeded("favorite")
  /\ clock < MaxTime
  /\ Len(list_user_availabilities(last.caller)) = 2
  /\ list_user_availabilities(last.caller)[2].id = last.id
  /\ list_user_availabilities(last.caller)[1].display_order = 1
  /\ set_favorite_availability(last.caller, last.id, MaxTime).av[last.id].updated_at
       > AVAILABILITIES[last.id].updated_at

\* C40: the first six characters of the identifier a create or regenerate
\* at time t makes are six copies of the alphabet symbol at index t mod 36;
\* times congruent modulo 36 sample the same identifier, and there are at
\* most 36 samples.
C40_SampleIsTimeMod36 ==
  /\ [](/\ \A t1, t2 \in 0..MaxIdTime :
             (t1 % 36 = t2 % 36) => SampleId(t1) = SampleId(t2)
        /\ Cardinality({SampleId(t) : t \in 0..MaxIdTime}) <= 36)
  /\ [][(last'.op \in {"create", "regenerate"} /\ last'.res = Ok) =>
          /\ Len(MadeId') >= 6
          /\ \A i \in 1..6 :
               SubSeq(MadeId', i, i) = CHARSET[(clock' % 36) + 1]
          /\ SubSeq(MadeId', 1, 6) = SampleId(clock')]_vars

\* C40 witness: a create at time 36 sampled the identifier made at time 0,
\* found it stored, and returned it with the suffix 36.
C40_Witness ==
  /\ Succeeded("create")
  /\ clock = 36
  /\ "aaaaaa" \in DOMAIN AVAILABILITIES
  /\ AVAILABILITIES["aaaaaa"].created_at = 0
  /\ last.out[1].id = "aaaaaa36"

\* the users with a stored session
SignedIn == {SESSIONS[k].user_id : k \in DOMAIN SESSIONS}

\* C31: when sessions of two different users are stored, get_user_info
\* called by one of them returns that user's user_id, email and name, never
\* the other's.
C31_UserInfoOfCaller ==
  Cardinality(SignedIn) >= 2 =>
    \A user \in SignedIn \cap AuthUsers :
      \A info \in get_user_info(CallerOf(user)) :
        /\ info.user_id = << user >>
        /\ info.email = EmailOf(user)
        /\ info.name = NameOf(user)

\* C38: the step in which exchange_oauth_code or refresh_google_token of
\* caller c resumes and succeeds stores the token under c's key and leaves
\* every other key of the token map as it was, present or absent, whatever
\* ran while the call was suspended.
C38_TokenUnderOwnKeyOnly ==
  [][(last'.op \in {"exchange_oauth_code", "refresh_google_token"}
        /\ last'.res = Ok) =>
       /\ last'.caller \in DOMAIN USER_TOKENS'
       /\ USER_TOKENS'[last'.caller] = last'.out[1]
       /\ DOMAIN USER_TOKENS' = DOMAIN USER_TOKENS \cup {last'.caller}
       /\ \A k \in DOMAIN USER_TOKENS \ {last'.caller} :
            USER_TOKENS'[k] = USER_TOKENS[k]]_vars

\* C39: get_delegation succeeds only for a stored session whose expires_at
\* and origin equal the request's and whose expires_at is later than the
\* current time, and it leaves the session map as it is.
C39_NoDelegationForExpired ==
  \A req \in GetDelegationRequests :
    LET o == get_delegation(req)
    IN  /\ o.sessions = SESSIONS
        /\ o.res = Ok =>
             /\ req.session_public_key \in DOMAIN SESSIONS
             /\ SESSIONS[req.session_public_key].expires_at = req.expire_at
             /\ SESSIONS[req.session_public_key].origin = req.origin
             /\ SESSIONS[req.session_public_key].expires_at > clock

====
